---- MODULE Spec2Model ----
(***************************************************************************)
(* Transaction-ledger replay of the options portfolio tracker              *)
(* (PortfolioProvider.calculateProcessedPortfolio).                        *)
(*                                                                         *)
(* One step of Spec is one iteration of the log.forEach callback: the      *)
(* transaction is drawn from small input sets, the ledger maps and the     *)
(* running realized P/L are updated as the switch statement updates them.  *)
(*                                                                         *)
(* Money amounts are JavaScript numbers in the source.  They are modelled  *)
(* as exact rationals [n, d] in lowest terms (d > 0), i.e. the arithmetic  *)
(* is modelled without binary floating-point rounding.  Quantities are     *)
(* integers (shares, contracts).                                           *)
(***************************************************************************)
EXTENDS Integers, Sequences, FiniteSets, TLC

(***************************************************************************)
(* Bounds of the model                                                     *)
(***************************************************************************)
MaxLog == 3          \* transactions processed by one replay
MaxLots == 2         \* share quantities are 50, 100, ... 50 * MaxLots
MaxContracts == 2    \* contracts of an option transaction: 1 .. MaxContracts
MaxPrice == 2        \* share prices and premiums per contract: 1 .. MaxPrice
MaxCommission == 1   \* commissions: 0 .. MaxCommission
MaxStrike == 2       \* strikes of assignment transactions: 1 .. MaxStrike

(***************************************************************************)
(* Program constants                                                       *)
(***************************************************************************)
ContractMultiplier == 100     \* sharesToTrade = quantity * 100
EpsilonDen == 10000           \* the tolerance 0.0001 = 1 / EpsilonDen

(***************************************************************************)
(* JavaScript numbers as exact rationals                                   *)
(***************************************************************************)
Abs(x) == IF x < 0 THEN -x ELSE x

RECURSIVE GCD(_, _)
GCD(a, b) == IF b = 0 THEN a ELSE GCD(b, a % b)

Rat(n, d) ==
  LET g == GCD(Abs(n), Abs(d))
      s == IF d < 0 THEN -1 ELSE 1
  IN  [n |-> (s * n) \div g, d |-> (s * d) \div g]

RInt(i) == [n |-> i, d |-> 1]
RZero == RInt(0)
RAdd(a, b) == Rat(a.n * b.d + b.n * a.d, a.d * b.d)
RNeg(a) == [n |-> -a.n, d |-> a.d]
RSub(a, b) == RAdd(a, RNeg(b))
RMul(a, b) == Rat(a.n * b.n, a.d * b.d)
RDiv(a, b) == Rat(a.n * b.d, a.d * b.n)
RLe(a, b) == a.n * b.d <= b.n * a.d

\* quantity < 0.0001
BelowEpsilon(q) == q * EpsilonDen < 1

(***************************************************************************)
(* Maps keyed by ticker / optionId ({ [key: string]: ... })                *)
(***************************************************************************)
\* (map[key] || 0) for a map of integers
GetQty(map, key) == IF key \in DOMAIN map THEN map[key] ELSE 0
\* (map[key] || 0) for a map of amounts
GetAmt(map, key) == IF key \in DOMAIN map THEN map[key] ELSE RZero
\* map[key] = value
Put(map, key, value) ==
  [k \in DOMAIN map \cup {key} |-> IF k = key THEN value ELSE map[k]]
\* delete map[key]
Delete(map, key) == [k \in DOMAIN map \ {key} |-> map[k]]
EmptyMap == [k \in {} |-> 0]

\* tx.ticker.toUpperCase()
ToUpperCase(s) ==
  CASE s = "xyz" -> "XYZ"
    [] s = "abc" -> "ABC"
    [] OTHER -> s

(***************************************************************************)
(* The state tracked by one replay                                         *)
(***************************************************************************)
EmptyLedger ==
  [shareQuantities |-> EmptyMap,
   shareTotalCosts |-> EmptyMap,
   openOptionStates |-> EmptyMap,
   cumulativeRealizedPL |-> RZero]

\* What one iteration of the forEach callback leaves: the ledger, the
\* transaction object (the callback may assign to tx.quantity) and the
\* console diagnostics it emitted.
Outcome(st, t, diag) == [st |-> st, tx |-> t, diag |-> diag]

(***************************************************************************)
(* Share transactions                                                      *)
(***************************************************************************)
\* fault model: the commission of a purchase is not added to the cost
BuyShareWithoutCommission(st, t) ==
  LET ticker == ToUpperCase(t.ticker)
      cost == RInt(t.quantity * t.pricePerShare)
  IN  Outcome(
        [st EXCEPT
           !.shareQuantities =
              Put(@, ticker, GetQty(st.shareQuantities, ticker) + t.quantity),
           !.shareTotalCosts =
              Put(@, ticker, RAdd(GetAmt(st.shareTotalCosts, ticker), cost))],
        t, {})

ProcessBuyShare(st, t) ==
  LET ticker == ToUpperCase(t.ticker)
      cost == RAdd(RInt(t.quantity * t.pricePerShare), RInt(t.commission))
  IN  Outcome(
        [st EXCEPT
           !.shareQuantities =
              Put(@, ticker, GetQty(st.shareQuantities, ticker) + t.quantity),
           !.shareTotalCosts =
              Put(@, ticker, RAdd(GetAmt(st.shareTotalCosts, ticker), cost))],
        t, {})

\* sellQty clamped to the holding
ClampSellQty(currentQty, requested) ==
  IF currentQty < requested THEN currentQty ELSE requested

\* fault model: the sale books the cost of the shares at the sale price
SellSharesAtSalePrice(st, ticker, sellQty, price, commission) ==
  LET currentQty == GetQty(st.shareQuantities, ticker)
      currentTotalCost == GetAmt(st.shareTotalCosts, ticker)
      costOfSoldShares == RInt(sellQty * price)
      proceeds == RSub(RInt(sellQty * price), commission)
      newQty == currentQty - sellQty
      sq == Put(st.shareQuantities, ticker, newQty)
      sc == Put(st.shareTotalCosts, ticker,
                RSub(currentTotalCost, costOfSoldShares))
  IN  [st EXCEPT
         !.cumulativeRealizedPL = RAdd(@, RSub(proceeds, costOfSoldShares)),
         !.shareQuantities = IF BelowEpsilon(newQty) THEN Delete(sq, ticker) ELSE sq,
         !.shareTotalCosts = IF BelowEpsilon(newQty) THEN Delete(sc, ticker) ELSE sc]

\* the sale of sellQty shares at price, less commission, against average cost
SellShares(st, ticker, sellQty, price, commission) ==
  LET currentQty == GetQty(st.shareQuantities, ticker)
      currentTotalCost == GetAmt(st.shareTotalCosts, ticker)
      avgCostBasisPerShare == RDiv(currentTotalCost, RInt(currentQty))
      costOfSoldShares == RMul(avgCostBasisPerShare, RInt(sellQty))
      proceeds == RSub(RInt(sellQty * price), commission)
      realizedPLFromSale == RSub(proceeds, costOfSoldShares)
      newQty == currentQty - sellQty
      sq == Put(st.shareQuantities, ticker, newQty)
      sc == Put(st.shareTotalCosts, ticker,
                RSub(currentTotalCost, costOfSoldShares))
  IN  [st EXCEPT
         !.cumulativeRealizedPL = RAdd(@, realizedPLFromSale),
         !.shareQuantities = IF BelowEpsilon(newQty) THEN Delete(sq, ticker) ELSE sq,
         !.shareTotalCosts = IF BelowEpsilon(newQty) THEN Delete(sc, ticker) ELSE sc]

ProcessSellShare(st, t) ==
  LET ticker == ToUpperCase(t.ticker)
      currentQty == GetQty(st.shareQuantities, ticker)
      sellQty == ClampSellQty(currentQty, t.quantity)
      diag == IF currentQty < t.quantity THEN {"oversell"} ELSE {}
  IN  IF sellQty > 0 /\ currentQty > 0
      THEN Outcome(SellShares(st, ticker, sellQty, t.pricePerShare,
                              RInt(t.commission)), t, diag)
      ELSE Outcome(st, t, diag)

(***************************************************************************)
(* Option series                                                           *)
(***************************************************************************)
\* getAvgPremiumPerContract: netPremiumValue / quantity, 0 for no contracts
getAvgPremiumPerContract(optionState) ==
  IF optionState.quantity = 0 THEN RZero
  ELSE RDiv(optionState.netPremiumValue, RInt(optionState.quantity))

\* commissionPerContractOpened
CommissionPerContract(openState) ==
  IF openState.quantity > 0
  THEN RDiv(openState.commissionPaid, RInt(openState.quantity))
  ELSE RZero

\* 'short' for SELL_TO_OPEN_OPTION, 'long' for BUY_TO_OPEN_OPTION
OpenPositionType(t) ==
  IF t.transactionType = "SELL_TO_OPEN_OPTION" THEN "short" ELSE "long"

\* netPremiumValue contribution: + for short (credit), - for long (debit)
SignedPremium(positionType, premiumEffect) ==
  IF positionType = "short" THEN RInt(premiumEffect) ELSE RInt(-premiumEffect)

\* adding contracts to an existing series of the same direction
AddToExistingState(st, t) ==
  LET positionType == OpenPositionType(t)
      premiumEffect == t.premiumPerContract * t.quantity
  IN  [st EXCEPT !.openOptionStates[t.optionId] =
         [@ EXCEPT
            !.quantity = @ + t.quantity,
            !.netPremiumValue = RAdd(@, SignedPremium(positionType, premiumEffect)),
            !.commissionPaid = RAdd(@, RInt(t.commission))]]

\* fault model: a new series starts without the commission of its opening
OpenNewStateWithoutCommission(st, t) ==
  LET positionType == OpenPositionType(t)
      premiumEffect == t.premiumPerContract * t.quantity
  IN  [st EXCEPT !.openOptionStates =
         Put(@, t.optionId,
             [id |-> t.optionId,
              ticker |-> ToUpperCase(t.ticker),
              optionType |-> t.optionType,
              strikePrice |-> t.strikePrice,
              positionType |-> positionType,
              quantity |-> t.quantity,
              netPremiumValue |-> SignedPremium(positionType, premiumEffect),
              commissionPaid |-> RZero])]

\* opening a new series
OpenNewState(st, t) ==
  LET positionType == OpenPositionType(t)
      premiumEffect == t.premiumPerContract * t.quantity
  IN  [st EXCEPT !.openOptionStates =
         Put(@, t.optionId,
             [id |-> t.optionId,
              ticker |-> ToUpperCase(t.ticker),
              optionType |-> t.optionType,
              strikePrice |-> t.strikePrice,
              positionType |-> positionType,
              quantity |-> t.quantity,
              netPremiumValue |-> SignedPremium(positionType, premiumEffect),
              commissionPaid |-> RInt(t.commission)])]

\* fault model: contracts are added to the existing series whatever its direction
OpenMergesAnyDirection(st, t) ==
  IF t.optionId \in DOMAIN st.openOptionStates
  THEN Outcome(AddToExistingState(st, t), t, {})
  ELSE Outcome(OpenNewState(st, t), t, {})

ProcessOpenOption(st, t) ==
  IF t.optionId \in DOMAIN st.openOptionStates
  THEN IF st.openOptionStates[t.optionId].positionType # OpenPositionType(t)
       THEN Outcome(st, t, {"direction_mismatch"})
       ELSE Outcome(AddToExistingState(st, t), t, {})
  ELSE Outcome(OpenNewState(st, t), t, {})

\* if (openState.quantity < requested) tx.quantity = openState.quantity
AdjustQuantity(t, openState) ==
  IF openState.quantity < t.quantity
  THEN [t EXCEPT !.quantity = openState.quantity]
  ELSE t

\* fault model: only the quantity is reduced
ReduceQuantityOnly(openState, avgPremium, commissionPerContract, qty) ==
  [openState EXCEPT !.quantity = @ - qty]

\* the quantity, netPremiumValue and commissionPaid left after qty contracts
\* at the average premium and commission per contract are taken out
ReduceOpenState(openState, avgPremium, commissionPerContract, qty) ==
  [openState EXCEPT
     !.quantity = @ - qty,
     !.netPremiumValue = RSub(@, RMul(avgPremium, RInt(qty))),
     !.commissionPaid = RSub(@, RMul(commissionPerContract, RInt(qty)))]

\* fault model: the reduced series is stored even when no contract is left
StoreAlways(states, optionId, newState) == Put(states, optionId, newState)

\* store the reduced series, or remove it once its quantity is below 0.0001
StoreOrRemove(states, optionId, newState) ==
  IF BelowEpsilon(newState.quantity)
  THEN Delete(states, optionId)
  ELSE Put(states, optionId, newState)

\* fault model: the two kinds of close are taken for each other
ClosingTypeSwapped(t) ==
  IF t.transactionType = "BUY_TO_CLOSE_OPTION" THEN "long" ELSE "short"

\* 'short' for BUY_TO_CLOSE_OPTION, 'long' for SELL_TO_CLOSE_OPTION
ClosingType(t) ==
  IF t.transactionType = "BUY_TO_CLOSE_OPTION" THEN "short" ELSE "long"

\* fault model: the long branch adds the opening debit instead of subtracting it
CloseRealizedPLWrongSign(openState, closingPremiumEffect, actualClosingQty, commission) ==
  LET avg == IF openState.quantity = 0 THEN RZero
             ELSE RDiv(openState.netPremiumValue, RInt(openState.quantity))
      cpc == IF openState.quantity > 0
             THEN RDiv(openState.commissionPaid, RInt(openState.quantity))
             ELSE RZero
      q == RInt(actualClosingQty)
  IN  IF openState.positionType = "short"
      THEN RSub(RSub(RSub(RMul(avg, q), RInt(closingPremiumEffect)),
                     RMul(cpc, q)), commission)
      ELSE RSub(RSub(RSub(RInt(closingPremiumEffect), RMul(avg, q)),
                     RMul(cpc, q)), commission)

\* realizedPLFromOption of a close
CloseRealizedPL(openState, closingPremiumEffect, actualClosingQty, commission) ==
  LET avg == getAvgPremiumPerContract(openState)
      cpc == CommissionPerContract(openState)
      q == RInt(actualClosingQty)
  IN  IF openState.positionType = "short"
      THEN RSub(RSub(RSub(RMul(avg, q), RInt(closingPremiumEffect)),
                     RMul(cpc, q)), commission)
      ELSE RSub(RSub(RSub(RInt(closingPremiumEffect), RMul(RNeg(avg), q)),
                     RMul(cpc, q)), commission)

\* a close of a series that is tracked as open
CloseTrackedOption(st, t) ==
  LET optionId == t.optionId
      closingQty == t.quantity
      closingPremiumEffect == t.premiumPerContract * closingQty
      commission == RInt(t.commission)
      openState == st.openOptionStates[optionId]
  IN  IF openState.positionType # ClosingType(t)
      THEN Outcome(st, t, {"type_mismatch"})
      ELSE LET t2 == AdjustQuantity(t, openState)
               diag == IF openState.quantity < closingQty
                       THEN {"overclose"} ELSE {}
               actualClosingQty == t2.quantity
           IN  IF actualClosingQty <= 0
               THEN Outcome(st, t2, diag)
               ELSE Outcome(
                      [st EXCEPT
                         !.cumulativeRealizedPL =
                            RAdd(@, CloseRealizedPL(openState, closingPremiumEffect,
                                                    actualClosingQty, commission)),
                         !.openOptionStates =
                            StoreOrRemove(@, optionId,
                              ReduceOpenState(openState,
                                getAvgPremiumPerContract(openState),
                                CommissionPerContract(openState),
                                actualClosingQty))],
                      t2, diag)

\* fault model: a close of an untracked series books its premium and commission
CloseUntrackedBooksPremium(st, t) ==
  IF t.optionId \notin DOMAIN st.openOptionStates
  THEN Outcome([st EXCEPT !.cumulativeRealizedPL =
                  RSub(@, RInt(t.premiumPerContract * t.quantity + t.commission))],
               t, {})
  ELSE CloseTrackedOption(st, t)

ProcessCloseOption(st, t) ==
  IF t.optionId \notin DOMAIN st.openOptionStates
  THEN Outcome(st, t, {"not_tracked"})
  ELSE CloseTrackedOption(st, t)

\* fault model: an expired short series gives the credit back
ExpireForfeitsCredit(openState, actualExpiringQty) ==
  LET avg == getAvgPremiumPerContract(openState)
      cpc == CommissionPerContract(openState)
      q == RInt(actualExpiringQty)
  IN  RSub(RMul(RNeg(avg), q), RMul(cpc, q))

\* realizedPLFromOption of an expiration
ExpireRealizedPL(openState, actualExpiringQty) ==
  LET avg == getAvgPremiumPerContract(openState)
      cpc == CommissionPerContract(openState)
      q == RInt(actualExpiringQty)
  IN  IF openState.positionType = "short"
      THEN RSub(RMul(avg, q), RMul(cpc, q))
      ELSE RSub(RMul(RNeg(avg), q), RMul(cpc, q))

ProcessExpireOption(st, t) ==
  LET optionId == t.optionId
      expiringQty == t.quantity
  IN  IF optionId \notin DOMAIN st.openOptionStates
      THEN Outcome(st, t, {"not_tracked"})
      ELSE LET openState == st.openOptionStates[optionId]
               t2 == AdjustQuantity(t, openState)
               diag == IF openState.quantity < expiringQty
                       THEN {"overexpire"} ELSE {}
               actualExpiringQty == t2.quantity
           IN  IF actualExpiringQty <= 0
               THEN Outcome(st, t2, diag)
               ELSE Outcome(
                      [st EXCEPT
                         !.cumulativeRealizedPL =
                            RAdd(@, ExpireRealizedPL(openState, actualExpiringQty)),
                         !.openOptionStates =
                            StoreOrRemove(@, optionId,
                              ReduceOpenState(openState,
                                getAvgPremiumPerContract(openState),
                                CommissionPerContract(openState),
                                actualExpiringQty))],
                      t2, diag)

(***************************************************************************)
(* Assignment / exercise                                                   *)
(***************************************************************************)
\* realizedPLFromOption of the option leg of an assignment or exercise
AssignRealizedPL(openState, actualAssignedQty) ==
  LET avg == getAvgPremiumPerContract(openState)
      cpc == CommissionPerContract(openState)
      q == RInt(actualAssignedQty)
  IN  IF openState.positionType = "short"
      THEN RSub(RMul(avg, q), RMul(cpc, q))
      ELSE RSub(RMul(RNeg(avg), q), RMul(cpc, q))

\* fault model: the side follows the option type alone
SideByOptionTypeOnly(assignedOptionState) ==
  IF assignedOptionState.optionType = "call" THEN "SELL_SHARE" ELSE "BUY_SHARE"

\* shareTxType: the side of the share trade an assignment/exercise triggers
AssignmentShareTxType(assignedOptionState) ==
  IF assignedOptionState.positionType = "short"
  THEN IF assignedOptionState.optionType = "call" THEN "SELL_SHARE" ELSE "BUY_SHARE"
  ELSE IF assignedOptionState.optionType = "call" THEN "BUY_SHARE" ELSE "SELL_SHARE"

\* the share trade derived from an assignment: sharesToTrade at the strike of
\* the assignment transaction, on the ticker of the assignment transaction
DerivedShareTrade(assignmentTx, assignedOptionState) ==
  [transactionType |-> AssignmentShareTxType(assignedOptionState),
   ticker |-> ToUpperCase(assignmentTx.ticker),
   quantity |-> assignedOptionState.quantity * ContractMultiplier,
   pricePerShare |-> assignmentTx.strikePrice]

\* fault model: the synthetic purchase adds the shares but not their cost
SyntheticBuyWithoutCost(st, trade) ==
  [st EXCEPT
     !.shareQuantities =
        Put(@, trade.ticker, GetQty(st.shareQuantities, trade.ticker) + trade.quantity)]

\* synthetic BUY_SHARE: no commission
SyntheticBuyShares(st, trade) ==
  LET cost == RInt(trade.quantity * trade.pricePerShare)
  IN  [st EXCEPT
         !.shareQuantities =
            Put(@, trade.ticker, GetQty(st.shareQuantities, trade.ticker) + trade.quantity),
         !.shareTotalCosts =
            Put(@, trade.ticker, RAdd(GetAmt(st.shareTotalCosts, trade.ticker), cost))]

\* fault model: the synthetic sale is not capped
UncappedSellQty(currentQty, sharesToTrade) == sharesToTrade

\* effectiveSellQty: the sale is capped at the shares held
CapEffectiveSellQty(currentQty, sharesToTrade) ==
  IF currentQty < sharesToTrade THEN currentQty ELSE sharesToTrade

\* synthetic SELL_SHARE: no commission
SyntheticSellShares(st, trade) ==
  LET assignedTicker == trade.ticker
      sharePrice == trade.pricePerShare
      currentQty == GetQty(st.shareQuantities, assignedTicker)
      currentTotalCost == GetAmt(st.shareTotalCosts, assignedTicker)
      effectiveSellQty == CapEffectiveSellQty(currentQty, trade.quantity)
  IN  IF effectiveSellQty > 0 /\ currentQty > 0
      THEN LET avgCostBasisPerShare == RDiv(currentTotalCost, RInt(currentQty))
               costOfSoldShares == RMul(avgCostBasisPerShare, RInt(effectiveSellQty))
               proceeds == RInt(effectiveSellQty * sharePrice)
               realizedPLFromSale == RSub(proceeds, costOfSoldShares)
               newQty == currentQty - effectiveSellQty
               sq == Put(st.shareQuantities, assignedTicker, newQty)
               sc == Put(st.shareTotalCosts, assignedTicker,
                         RSub(currentTotalCost, costOfSoldShares))
           IN  [st EXCEPT
                  !.cumulativeRealizedPL = RAdd(@, realizedPLFromSale),
                  !.shareQuantities =
                     IF BelowEpsilon(newQty) THEN Delete(sq, assignedTicker) ELSE sq,
                  !.shareTotalCosts =
                     IF BelowEpsilon(newQty) THEN Delete(sc, assignedTicker) ELSE sc]
      ELSE IF effectiveSellQty > 0
      THEN \* entering a short share position: proceeds tracked as negative cost
           [st EXCEPT
              !.shareQuantities =
                 Put(@, assignedTicker,
                     GetQty(st.shareQuantities, assignedTicker) - effectiveSellQty),
              !.shareTotalCosts =
                 Put(@, assignedTicker,
                     RSub(GetAmt(st.shareTotalCosts, assignedTicker),
                          RInt(effectiveSellQty * sharePrice)))]
      ELSE st

processAssignmentShareLeg(st, assignmentTx, assignedOptionState) ==
  LET trade == DerivedShareTrade(assignmentTx, assignedOptionState)
  IN  IF trade.transactionType = "BUY_SHARE"
      THEN SyntheticBuyShares(st, trade)
      ELSE SyntheticSellShares(st, trade)

\* the console.warn of the synthetic sale
ShareLegDiag(st, assignmentTx, assignedOptionState) ==
  LET trade == DerivedShareTrade(assignmentTx, assignedOptionState)
  IN  IF /\ trade.transactionType = "SELL_SHARE"
         /\ GetQty(st.shareQuantities, trade.ticker) < trade.quantity
      THEN {"assignment_oversell"} ELSE {}

ProcessAssignOrExercise(st, t) ==
  LET optionId == t.optionId
      assignedQty == t.quantity
  IN  IF optionId \notin DOMAIN st.openOptionStates
      THEN Outcome(st, t, {"not_tracked"})
      ELSE LET openState == st.openOptionStates[optionId]
               t2 == AdjustQuantity(t, openState)
               diag == IF openState.quantity < assignedQty
                       THEN {"overassign"} ELSE {}
               actualAssignedQty == t2.quantity
           IN  IF actualAssignedQty <= 0
               THEN Outcome(st, t2, diag)
               ELSE LET st1 == [st EXCEPT !.cumulativeRealizedPL =
                                   RAdd(@, AssignRealizedPL(openState, actualAssignedQty))]
                        portionAssigned == [openState EXCEPT !.quantity = actualAssignedQty]
                        st2 == processAssignmentShareLeg(st1, t2, portionAssigned)
                    IN  Outcome(
                          [st2 EXCEPT !.openOptionStates =
                             StoreOrRemove(@, optionId,
                               ReduceOpenState(openState,
                                 getAvgPremiumPerContract(openState),
                                 CommissionPerContract(openState),
                                 actualAssignedQty))],
                          t2, diag \cup ShareLegDiag(st1, t2, portionAssigned))

(***************************************************************************)
(* switch (tx.transactionType)                                             *)
(***************************************************************************)
ProcessTx(st, t) ==
  CASE t.transactionType = "BUY_SHARE" -> ProcessBuyShare(st, t)
    [] t.transactionType = "SELL_SHARE" -> ProcessSellShare(st, t)
    [] t.transactionType \in {"SELL_TO_OPEN_OPTION", "BUY_TO_OPEN_OPTION"} ->
         ProcessOpenOption(st, t)
    [] t.transactionType \in {"BUY_TO_CLOSE_OPTION", "SELL_TO_CLOSE_OPTION"} ->
         ProcessCloseOption(st, t)
    [] t.transactionType = "OPTION_EXPIRED" -> ProcessExpireOption(st, t)
    [] t.transactionType \in {"OPTION_ASSIGNED", "OPTION_EXERCISED"} ->
         ProcessAssignOrExercise(st, t)
    [] OTHER -> Outcome(st, t, {})

(***************************************************************************)
(* The derived state returned by a replay                                  *)
(***************************************************************************)
\* finalOpenShares: one position per ticker whose |quantity| > 0.0001
FinalOpenShares(st) ==
  { [ticker |-> k,
     quantity |-> st.shareQuantities[k],
     costBasisPerShare |->
        IF st.shareQuantities[k] > 0
        THEN RDiv(st.shareTotalCosts[k], RInt(st.shareQuantities[k]))
        ELSE RZero] :
    k \in { x \in DOMAIN st.shareQuantities :
              ~BelowEpsilon(Abs(st.shareQuantities[x])) } }

\* finalOpenOptions: one position per tracked series
FinalOpenOptions(st) ==
  { LET state == st.openOptionStates[id]
        avg == IF state.quantity > 0
               THEN RDiv(state.netPremiumValue, RInt(state.quantity))
               ELSE RZero
    IN  [id |-> state.id,
         ticker |-> state.ticker,
         quantity |-> state.quantity,
         optionType |-> state.optionType,
         positionType |-> state.positionType,
         strikePrice |-> state.strikePrice,
         premium |-> IF avg.n < 0 THEN RNeg(avg) ELSE avg] :
    id \in DOMAIN st.openOptionStates }

\* the ProcessedPortfolio a replay that ends with ledger st returns
ProcessedPortfolio(st) ==
  [openShares |-> FinalOpenShares(st),
   openOptions |-> FinalOpenOptions(st),
   realizedPL |-> st.cumulativeRealizedPL]

\* calculateProcessedPortfolio as a fold of the callback over a log
RECURSIVE ReplayLedger(_, _)
ReplayLedger(st, log) ==
  IF log = <<>> THEN st
  ELSE ReplayLedger(ProcessTx(st, Head(log)).st, Tail(log))

calculateProcessedPortfolio(log) == ProcessedPortfolio(ReplayLedger(EmptyLedger, log))

(***************************************************************************)
(* Inputs                                                                  *)
(***************************************************************************)
Tickers == {"xyz"}
ShareQtys == {50 * i : i \in 1 .. MaxLots}
Contracts == 1 .. MaxContracts
Prices == 1 .. MaxPrice
Commissions == 0 .. MaxCommission
Strikes == 1 .. MaxStrike

\* optionId = `${ticker}_${optionType}_${strikePrice}_${expirationDate}`
OptionIds == {"xyz_call_1", "xyz_put_2"}
SeriesOptionType(optionId) == IF optionId = "xyz_call_1" THEN "call" ELSE "put"
SeriesStrike(optionId) == IF optionId = "xyz_call_1" THEN 1 ELSE 2

ShareTx(type, ticker, quantity, price, commission) ==
  [transactionType |-> type, ticker |-> ticker, quantity |-> quantity,
   pricePerShare |-> price, commission |-> commission]

OpenTx(type, optionId, quantity, premium, commission) ==
  [transactionType |-> type, ticker |-> "xyz", optionId |-> optionId,
   optionType |-> SeriesOptionType(optionId),
   strikePrice |-> SeriesStrike(optionId),
   quantity |-> quantity, premiumPerContract |-> premium,
   commission |-> commission]

CloseTx(type, optionId, quantity, premium, commission) ==
  [transactionType |-> type, ticker |-> "xyz", optionId |-> optionId,
   quantity |-> quantity, premiumPerContract |-> premium,
   commission |-> commission]

ExpireTx(optionId, quantity) ==
  [transactionType |-> "OPTION_EXPIRED", ticker |-> "xyz",
   optionId |-> optionId, quantity |-> quantity]

AssignTx(type, ticker, optionId, quantity, strike) ==
  [transactionType |-> type, ticker |-> ticker, optionId |-> optionId,
   quantity |-> quantity, strikePrice |-> strike]

NoTx == [transactionType |-> "NONE"]

(***************************************************************************)
(* State                                                                   *)
(***************************************************************************)
VARIABLES
  shareQuantities,       \* { [ticker]: number } of the running replay
  shareTotalCosts,       \* { [ticker]: number }
  openOptionStates,      \* { [optionId]: OptionProcessingState }
  cumulativeRealizedPL,  \* running realized P/L
  index,                 \* number of log entries the forEach has processed
  tx,                    \* the entry just processed, as it was in the log
  txAfter,               \* the same object after the callback returned
  diag,                  \* console diagnostics of the last callback
  prev,                  \* the ledger as it was when the last callback began
  rerun,                 \* ledger of the next replay over the same objects
  provider,              \* which PortfolioProvider the build mounts
  transactionLog,        \* useState<Transaction[]> of the transaction-log provider
  processedPortfolio,    \* useState<ProcessedPortfolio | null>
  pendingEffect,         \* transactionLog changed, the recompute effect has not run
  replayedLog,           \* the log as the last recompute effect received it
  trades,                \* useState<Trade[]> of useTrades
  storage,               \* localStorage[TRADES_STORAGE_KEY]: <<>> or <<text>>
  clock,                 \* Date.now() of the next call, in ticks
  args,                  \* arguments of the call of a pure utility
  result                 \* <<>> until the call returns, then <<return value>>

ledgerVars == <<shareQuantities, shareTotalCosts, openOptionStates,
                cumulativeRealizedPL, index, tx, txAfter, diag, prev, rerun>>
providerVars == <<provider, transactionLog, processedPortfolio, pendingEffect,
                  replayedLog, trades, storage, clock>>
callVars == <<args, result>>
vars == <<ledgerVars, providerVars, callVars>>

\* no provider is mounted
ProviderIdle ==
  /\ provider = "none"
  /\ transactionLog = <<>>
  /\ processedPortfolio = "null"
  /\ pendingEffect = FALSE
  /\ replayedLog = <<>>
  /\ trades = <<>>
  /\ storage = <<>>
  /\ clock = 0

\* no utility function has been called
CallIdle ==
  /\ args = <<>>
  /\ result = <<>>

\* no replay is running
LedgerIdle ==
  /\ shareQuantities = EmptyMap
  /\ shareTotalCosts = EmptyMap
  /\ openOptionStates = EmptyMap
  /\ cumulativeRealizedPL = RZero
  /\ index = 0
  /\ tx = [transactionType |-> "NONE"]
  /\ txAfter = [transactionType |-> "NONE"]
  /\ diag = {}
  /\ prev = EmptyLedger
  /\ rerun = EmptyLedger

Ledger ==
  [shareQuantities |-> shareQuantities,
   shareTotalCosts |-> shareTotalCosts,
   openOptionStates |-> openOptionStates,
   cumulativeRealizedPL |-> cumulativeRealizedPL]

Init ==
  /\ shareQuantities = EmptyMap
  /\ shareTotalCosts = EmptyMap
  /\ openOptionStates = EmptyMap
  /\ cumulativeRealizedPL = RZero
  /\ index = 0
  /\ tx = NoTx
  /\ txAfter = NoTx
  /\ diag = {}
  /\ prev = EmptyLedger
  /\ rerun = EmptyLedger
  /\ ProviderIdle
  /\ CallIdle

\* one iteration of log.forEach on the entry t; the later replay of the same
\* log sees the entry as this iteration left it
Step(t) ==
  /\ LET out == ProcessTx(Ledger, t)
     IN  /\ shareQuantities' = out.st.shareQuantities
         /\ shareTotalCosts' = out.st.shareTotalCosts
         /\ openOptionStates' = out.st.openOptionStates
         /\ cumulativeRealizedPL' = out.st.cumulativeRealizedPL
         /\ txAfter' = out.tx
         /\ diag' = out.diag
         /\ rerun' = ProcessTx(rerun, out.tx).st
  /\ index' = index + 1
  /\ tx' = t
  /\ prev' = Ledger
  /\ UNCHANGED <<providerVars, callVars>>

BuyShare ==
  \E k \in Tickers, q \in ShareQtys, p \in Prices, c \in Commissions :
    /\ index < MaxLog
    /\ Step(ShareTx("BUY_SHARE", k, q, p, c))

SellShare ==
  \E k \in Tickers, q \in ShareQtys, p \in Prices, c \in Commissions :
    /\ index < MaxLog
    /\ Step(ShareTx("SELL_SHARE", k, q, p, c))

OpenOption ==
  \E ty \in {"SELL_TO_OPEN_OPTION", "BUY_TO_OPEN_OPTION"}, id \in OptionIds,
     q \in Contracts, p \in Prices, c \in Commissions :
    /\ index < MaxLog
    /\ Step(OpenTx(ty, id, q, p, c))

CloseOption ==
  \E ty \in {"BUY_TO_CLOSE_OPTION", "SELL_TO_CLOSE_OPTION"}, id \in OptionIds,
     q \in Contracts, p \in Prices, c \in Commissions :
    /\ index < MaxLog
    /\ Step(CloseTx(ty, id, q, p, c))

ExpireOption ==
  \E id \in OptionIds, q \in Contracts :
    /\ index < MaxLog
    /\ Step(ExpireTx(id, q))

AssignOrExercise ==
  \E ty \in {"OPTION_ASSIGNED", "OPTION_EXERCISED"}, k \in Tickers,
     id \in OptionIds, q \in Contracts, s \in Strikes :
    /\ index < MaxLog
    /\ Step(AssignTx(ty, k, id, q, s))

Next ==
  \/ BuyShare
  \/ SellShare
  \/ OpenOption
  \/ CloseOption
  \/ ExpireOption
  \/ AssignOrExercise

Spec == Init /\ [][Next]_vars

(***************************************************************************)
(* Reading the last callback from the state                                *)
(***************************************************************************)
CloseTypes == {"BUY_TO_CLOSE_OPTION", "SELL_TO_CLOSE_OPTION"}
OpenTypes == {"SELL_TO_OPEN_OPTION", "BUY_TO_OPEN_OPTION"}
AssignTypes == {"OPTION_ASSIGNED", "OPTION_EXERCISED"}
EndTypes == CloseTypes \cup {"OPTION_EXPIRED"} \cup AssignTypes

\* the last transaction was a close, expiration or assignment of a series
\* that was tracked when it was processed
LastHitTrackedSeries ==
  /\ tx.transactionType \in EndTypes
  /\ tx.optionId \in DOMAIN prev.openOptionStates

\* the series the last transaction referred to, as it was before
PrevSeries == prev.openOptionStates[tx.optionId]

\* ... and the transaction was applied to it (a close of the wrong kind is not)
LastAppliedToSeries ==
  /\ LastHitTrackedSeries
  /\ tx.transactionType = "BUY_TO_CLOSE_OPTION" => PrevSeries.positionType = "short"
  /\ tx.transactionType = "SELL_TO_CLOSE_OPTION" => PrevSeries.positionType = "long"

Min(a, b) == IF a < b THEN a ELSE b

(***************************************************************************)
(* C1: in every state of a replay every tracked option series has a        *)
(* quantity > 0; a close, expiration or assignment takes                   *)
(* min(requested, open) contracts out of the series, never more than are   *)
(* open, and a series left with 0 contracts is removed.                    *)
(***************************************************************************)
C1_OpenQuantityPositive ==
  /\ \A id \in DOMAIN openOptionStates : openOptionStates[id].quantity > 0
  /\ LastAppliedToSeries =>
       LET open == PrevSeries.quantity
           k == Min(tx.quantity, open)
       IN  IF k = open
           THEN tx.optionId \notin DOMAIN openOptionStates
           ELSE /\ tx.optionId \in DOMAIN openOptionStates
                /\ openOptionStates[tx.optionId].quantity = open - k

\* an over-sized close/expiration/assignment was applied while another
\* series stays open
C1_Witness ==
  /\ LastAppliedToSeries
  /\ tx.quantity > PrevSeries.quantity
  /\ openOptionStates # EmptyMap

(***************************************************************************)
(* C2: expiring k contracts of a long series (or exercising k contracts of *)
(* a long call, whose share leg is a purchase) changes the realized P/L by *)
(* -(p * k) - (pro-rata opening commission), p the debit paid per          *)
(* contract; the change is never a gain.                                   *)
(***************************************************************************)
C2_LongExpiryLosesDebit ==
  ( /\ LastAppliedToSeries
    /\ PrevSeries.positionType = "long"
    /\ \/ tx.transactionType = "OPTION_EXPIRED"
       \/ tx.transactionType \in AssignTypes /\ PrevSeries.optionType = "call" )
  => LET k == RInt(txAfter.quantity)
         n == RInt(PrevSeries.quantity)
         p == RDiv(RNeg(PrevSeries.netPremiumValue), n)
         commissionShare == RMul(RDiv(PrevSeries.commissionPaid, n), k)
     IN  /\ cumulativeRealizedPL =
              RSub(RSub(prev.cumulativeRealizedPL, RMul(p, k)), commissionShare)
         /\ RLe(cumulativeRealizedPL, prev.cumulativeRealizedPL)

(***************************************************************************)
(* C3: a close that requests more contracts than are open leaves the       *)
(* ledger (positions and realized P/L) that a close of exactly the open    *)
(* quantity, at the same premium per contract and commission, leaves.      *)
(***************************************************************************)
C3_OvercloseAsExactClose ==
  ( /\ LastAppliedToSeries
    /\ tx.transactionType \in CloseTypes
    /\ tx.quantity > PrevSeries.quantity )
  => Ledger = ProcessCloseOption(prev, [tx EXCEPT !.quantity = PrevSeries.quantity]).st

(***************************************************************************)
(* C4: a replay leaves the transaction records unchanged, and a replay of  *)
(* the same log again returns the same open positions and realized P/L.    *)
(***************************************************************************)
C4_ReplayPure ==
  /\ txAfter = tx
  /\ ProcessedPortfolio(rerun) = ProcessedPortfolio(Ledger)

(***************************************************************************)
(* C5: a close, expiration or assignment whose optionId has no tracked     *)
(* series is skipped: share positions, option series and realized P/L are  *)
(* as before, the callback returns normally and the transaction record is  *)
(* left as it was.                                                         *)
(***************************************************************************)
C5_UnknownPositionSkipped ==
  ( /\ tx.transactionType \in EndTypes
    /\ tx.optionId \notin DOMAIN prev.openOptionStates )
  => /\ Ledger = prev
     /\ txAfter = tx

\* an unknown optionId met while shares and another series are open
C5_Witness ==
  /\ tx.transactionType \in EndTypes
  /\ tx.optionId \notin DOMAIN prev.openOptionStates
  /\ prev.openOptionStates # EmptyMap
  /\ prev.shareQuantities # EmptyMap

(***************************************************************************)
(* C6: an open on an optionId tracked with the opposite direction leaves   *)
(* the whole ledger unchanged; an open of the same direction adds its      *)
(* quantity, signed premium (+ short, - long) and commission to the        *)
(* existing series and changes nothing else.                               *)
(***************************************************************************)
C6_DirectionMismatchSkipped ==
  ( /\ tx.transactionType \in OpenTypes
    /\ tx.optionId \in DOMAIN prev.openOptionStates )
  => LET s == prev.openOptionStates[tx.optionId]
         short == tx.transactionType = "SELL_TO_OPEN_OPTION"
         premium == tx.premiumPerContract * tx.quantity
     IN  IF (s.positionType = "short") # short
         THEN Ledger = prev
         ELSE Ledger =
                [prev EXCEPT !.openOptionStates[tx.optionId] =
                   [s EXCEPT
                      !.quantity = s.quantity + tx.quantity,
                      !.netPremiumValue =
                         RAdd(s.netPremiumValue,
                              RInt(IF short THEN premium ELSE -premium)),
                      !.commissionPaid =
                         RAdd(s.commissionPaid, RInt(tx.commission))]]

\* an open of the opposite direction arrives for a tracked series
C6_Witness ==
  /\ tx.transactionType \in OpenTypes
  /\ tx.optionId \in DOMAIN prev.openOptionStates
  /\ (prev.openOptionStates[tx.optionId].positionType = "short")
       # (tx.transactionType = "SELL_TO_OPEN_OPTION")
  /\ prev.shareQuantities # EmptyMap

(***************************************************************************)
(* C7: no share quantity is ever negative: an explicit sale and the sale   *)
(* derived from an assignment/exercise both sell min(requested, held).     *)
(***************************************************************************)
\* the last transaction was an assignment/exercise whose share leg is a sale
LastSyntheticSale ==
  /\ LastAppliedToSeries
  /\ tx.transactionType \in AssignTypes
  /\ \/ PrevSeries.positionType = "short" /\ PrevSeries.optionType = "call"
     \/ PrevSeries.positionType = "long" /\ PrevSeries.optionType = "put"

C8_AssignmentShareTrade ==
  /\ ( LastAppliedToSeries /\ tx.transactionType \in AssignTypes ) =>
       LET s == PrevSeries
           shares == txAfter.quantity * 100
           held == GetQty(prev.shareQuantities, "XYZ")
           cost == GetAmt(prev.shareTotalCosts, "XYZ")
           buys == \/ s.positionType = "short" /\ s.optionType = "put"
                   \/ s.positionType = "long" /\ s.optionType = "call"
           optionLeg == AssignRealizedPL(s, txAfter.quantity)
       IN  IF buys
           THEN /\ GetQty(shareQuantities, "XYZ") = held + shares
                /\ GetAmt(shareTotalCosts, "XYZ") =
                     RAdd(cost, RInt(shares * tx.strikePrice))
                /\ cumulativeRealizedPL = RAdd(prev.cumulativeRealizedPL, optionLeg)
           ELSE held >= shares =>
                /\ GetQty(shareQuantities, "XYZ") = held - shares
                /\ cumulativeRealizedPL =
                     RAdd(RAdd(prev.cumulativeRealizedPL, optionLeg),
                          RSub(RInt(shares * tx.strikePrice),
                               RMul(RInt(shares), RDiv(cost, RInt(held)))))
  /\ index = 0 =>
       FinalOpenShares(ReplayLedger(EmptyLedger,
           << OpenTx("SELL_TO_OPEN_OPTION", "xyz_put_2", 1, 1, 0),
              AssignTx("OPTION_ASSIGNED", "xyz", "xyz_put_2", 1, 100) >>))
         = { [ticker |-> "XYZ", quantity |-> 100, costBasisPerShare |-> RInt(100)] }

\* an assignment sold shares that were held
C8_Witness ==
  /\ LastSyntheticSale
  /\ GetQty(prev.shareQuantities, "XYZ") >= txAfter.quantity * 100

(***************************************************************************)
(* C9: a sale of q <= held shares adds (q * price - commission)            *)
(* - q * (total cost / held) to the realized P/L; buying q at p and        *)
(* selling q at p without commissions realizes 0 and leaves no position;   *)
(* buying 10 at 50 and selling 10 at 60 realizes 100.                      *)
(***************************************************************************)
C9_SellShareRealizedPL ==
  /\ ( /\ tx.transactionType = "SELL_SHARE"
       /\ tx.quantity <= GetQty(prev.shareQuantities, "XYZ") ) =>
       LET held == prev.shareQuantities["XYZ"]
           cost == prev.shareTotalCosts["XYZ"]
           q == tx.quantity
       IN  /\ cumulativeRealizedPL =
                RAdd(prev.cumulativeRealizedPL,
                     RSub(RInt(q * tx.pricePerShare - tx.commission),
                          RMul(RInt(q), RDiv(cost, RInt(held)))))
           /\ ( q = held /\ cost = RInt(q * tx.pricePerShare) /\ tx.commission = 0 ) =>
                /\ cumulativeRealizedPL = prev.cumulativeRealizedPL
                /\ shareQuantities = EmptyMap
  /\ index = 0 =>
       /\ calculateProcessedPortfolio(
            << ShareTx("BUY_SHARE", "xyz", 10, 50, 0),
               ShareTx("SELL_SHARE", "xyz", 10, 60, 0) >>)
          = [openShares |-> {}, openOptions |-> {}, realizedPL |-> RInt(100)]
       /\ \A q \in ShareQtys, p \in Prices :
            calculateProcessedPortfolio(
              << ShareTx("BUY_SHARE", "xyz", q, p, 0),
                 ShareTx("SELL_SHARE", "xyz", q, p, 0) >>)
            = [openShares |-> {}, openOptions |-> {}, realizedPL |-> RZero]

\* a sale of part of a holding whose average cost is not the sale price
C9_Witness ==
  /\ tx.transactionType = "SELL_SHARE"
  /\ tx.quantity < GetQty(prev.shareQuantities, "XYZ")
  /\ tx.commission > 0
  /\ cumulativeRealizedPL # prev.cumulativeRealizedPL

(***************************************************************************)
(* C10: opening n contracts at premium p and closing all n at p, without   *)
(* commission, realizes 0 and leaves no open series, for a short series    *)
(* (sell to open, buy to close) and for a long one (buy to open, sell to   *)
(* close).                                                                 *)
(***************************************************************************)
C10_OpenCloseSamePremium ==
  /\ ( /\ LastAppliedToSeries
       /\ tx.transactionType \in CloseTypes
       /\ tx.quantity = PrevSeries.quantity
       /\ tx.commission = 0
       /\ PrevSeries.commissionPaid = RZero
       /\ PrevSeries.netPremiumValue =
            RInt((IF PrevSeries.positionType = "short" THEN 1 ELSE -1)
                   * tx.premiumPerContract * tx.quantity) ) =>
       /\ cumulativeRealizedPL = prev.cumulativeRealizedPL
       /\ tx.optionId \notin DOMAIN openOptionStates
  /\ index = 0 =>
       \A id \in OptionIds, n \in Contracts, p \in Prices :
         /\ calculateProcessedPortfolio(
              << OpenTx("SELL_TO_OPEN_OPTION", id, n, p, 0),
                 CloseTx("BUY_TO_CLOSE_OPTION", id, n, p, 0) >>)
            = [openShares |-> {}, openOptions |-> {}, realizedPL |-> RZero]
         /\ calculateProcessedPortfolio(
              << OpenTx("BUY_TO_OPEN_OPTION", id, n, p, 0),
                 CloseTx("SELL_TO_CLOSE_OPTION", id, n, p, 0) >>)
            = [openShares |-> {}, openOptions |-> {}, realizedPL |-> RZero]

\* a long series of more than one contract was opened and closed at one premium
C10_Witness ==
  /\ index = 2
  /\ tx.transactionType = "SELL_TO_CLOSE_OPTION"
  /\ LastAppliedToSeries
  /\ tx.quantity = PrevSeries.quantity
  /\ tx.quantity > 1
  /\ tx.commission = 0
  /\ PrevSeries.commissionPaid = RZero
  /\ PrevSeries.netPremiumValue = RInt(-(tx.premiumPerContract * tx.quantity))
  /\ cumulativeRealizedPL = RZero
  /\ openOptionStates = EmptyMap

(***************************************************************************)
(* C11: expiring k contracts of a short series whose open contracts were   *)
(* sold at an average credit p per contract changes the realized P/L by    *)
(* +(p * k) - (pro-rata opening commission); a short call sold for 500     *)
(* per contract without commission that expires realizes +500.             *)
(***************************************************************************)
C11_ShortExpiryKeepsCredit ==
  /\ ( /\ LastAppliedToSeries
       /\ tx.transactionType = "OPTION_EXPIRED"
       /\ PrevSeries.positionType = "short" ) =>
       LET n == RInt(PrevSeries.quantity)
           k == RInt(Min(tx.quantity, PrevSeries.quantity))
           p == RDiv(PrevSeries.netPremiumValue, n)
           commissionShare == RMul(RDiv(PrevSeries.commissionPaid, n), k)
       IN  cumulativeRealizedPL =
             RSub(RAdd(prev.cumulativeRealizedPL, RMul(p, k)), commissionShare)
  /\ index = 0 =>
       calculateProcessedPortfolio(
         << OpenTx("SELL_TO_OPEN_OPTION", "xyz_call_1", 1, 500, 0),
            ExpireTx("xyz_call_1", 1) >>)
       = [openShares |-> {}, openOptions |-> {}, realizedPL |-> RInt(500)]

\* part of a short series that was sold with a commission expired
C11_Witness ==
  /\ LastAppliedToSeries
  /\ tx.transactionType = "OPTION_EXPIRED"
  /\ PrevSeries.positionType = "short"
  /\ tx.quantity < PrevSeries.quantity
  /\ PrevSeries.commissionPaid # RZero
  /\ RLe(prev.cumulativeRealizedPL, cumulativeRealizedPL)
  /\ cumulativeRealizedPL # prev.cumulativeRealizedPL

(***************************************************************************)
(* The providers: the transaction-log PortfolioProvider and useTrades      *)
(*                                                                         *)
(* A trade date ('YYYY-MM-DD', required by the forms) is modelled by its   *)
(* day number.  An id is built from Date.now() (and a random suffix that   *)
(* is not modelled): the clock advances with every call.                   *)
(***************************************************************************)
MaxDate == 2        \* trade dates: day 1 .. MaxDate
MaxCalls == 3       \* addTransaction / addTrade calls of one run

MsPerDay == 86400000          \* 1000 * 60 * 60 * 24

\* new Date(date).getTime()
GetTime(date) == date * MsPerDay

\* (a, b) => new Date(a.date).getTime() - new Date(b.date).getTime()
CompareDate(a, b) == GetTime(a.date) - GetTime(b.date)

\* fault model: the entry goes in front of the entries of its own date
InsertBeforeEqual(sorted, x) ==
  LET k == Cardinality({i \in DOMAIN sorted : CompareDate(sorted[i], x) < 0})
  IN  SubSeq(sorted, 1, k) \o <<x>> \o SubSeq(sorted, k + 1, Len(sorted))

\* one insertion of the stable sort: x goes behind every entry that does not
\* compare greater
InsertSorted(sorted, x) ==
  LET k == Cardinality({i \in DOMAIN sorted : CompareDate(sorted[i], x) <= 0})
  IN  SubSeq(sorted, 1, k) \o <<x>> \o SubSeq(sorted, k + 1, Len(sorted))

\* Array.prototype.sort with the date comparator (stable)
RECURSIVE SortByDate(_)
SortByDate(items) ==
  IF items = <<>> THEN <<>>
  ELSE InsertSorted(SortByDate(SubSeq(items, 1, Len(items) - 1)), items[Len(items)])

\* JSON.stringify of a list of plain records (strings and finite numbers),
\* and JSON.parse of such a text
JSONStringify(items) == [json |-> items]
JSONParse(text) == text.json

\* fault model: the list as it was before the change is what gets written
SavePreviousList(items, written) ==
  IF written
  THEN [storage |-> <<JSONStringify(trades)>>, diag |-> {}]
  ELSE [storage |-> storage, diag |-> {"save_failed"}]

\* saveToStorage: localStorage.setItem replaces the stored text, or throws
\* (the quota is exceeded, storage is disabled) and the catch logs the error
saveToStorage(items, written) ==
  IF written
  THEN [storage |-> <<JSONStringify(items)>>, diag |-> {}]
  ELSE [storage |-> storage, diag |-> {"save_failed"}]

\* the value of a function that returns nothing
undefined == "undefined"

\* what the forms hand to addTransaction / addTrade, without the date
TradeData ==
  { ShareTx("BUY_SHARE", "xyz", 50, 1, 0),
    ShareTx("SELL_SHARE", "xyz", 50, 2, 0),
    OpenTx("SELL_TO_OPEN_OPTION", "xyz_call_1", 1, 2, 0),
    ExpireTx("xyz_call_1", 1) }
  \cup { CloseTx("BUY_TO_CLOSE_OPTION", "xyz_call_1", q, 1, 0) : q \in Contracts }
Dates == 1 .. MaxDate

\* the log entries as a replay from ledger st leaves them (tx.quantity is
\* assigned in place)
RECURSIVE ReplayTxs(_, _)
ReplayTxs(st, log) ==
  IF log = <<>> THEN <<>>
  ELSE LET out == ProcessTx(st, Head(log))
       IN  <<out.tx>> \o ReplayTxs(out.st, Tail(log))

\* the ProcessedPortfolio of the transaction-log provider; transactionLog is
\* the array the replay was given, whose entries it has assigned to
ReturnedPortfolio(log) ==
  calculateProcessedPortfolio(log)
    @@ [transactionLog |-> ReplayTxs(EmptyLedger, log)]

\* processedPortfolio of the useTrades provider (useMemo over trades)
useMemoProcessedPortfolio(items) ==
  [openShares |-> {}, openOptions |-> {}, realizedPL |-> RZero,
   transactionLog |-> items]

\* the build mounts one of the two providers; the log starts empty
ProviderInit ==
  /\ provider \in {"transactionLog", "trades"}
  /\ transactionLog = <<>>
  /\ processedPortfolio = "null"
  /\ pendingEffect = (provider = "transactionLog")
  /\ replayedLog = <<>>
  /\ trades = <<>>
  /\ storage = <<>>
  /\ clock = 0
  /\ LedgerIdle
  /\ CallIdle

addTransaction ==
  \E transactionData \in TradeData, date \in Dates :
    /\ provider = "transactionLog"
    /\ clock < MaxCalls
    /\ LET newTransaction ==
             transactionData
               @@ [date |-> date,
                   id |-> <<transactionData.transactionType, clock>>]
       IN  transactionLog' = SortByDate(Append(transactionLog, newTransaction))
    /\ pendingEffect' = TRUE
    /\ clock' = clock + 1
    /\ UNCHANGED <<provider, processedPortfolio, replayedLog, trades, storage>>
    /\ UNCHANGED <<ledgerVars, callVars>>

\* useEffect(() => setProcessedPortfolio(calculateProcessedPortfolio(transactionLog)))
RecomputeEffect ==
  /\ provider = "transactionLog"
  /\ pendingEffect
  /\ processedPortfolio' = ReturnedPortfolio(transactionLog)
  /\ transactionLog' = ReplayTxs(EmptyLedger, transactionLog)
  /\ replayedLog' = transactionLog
  /\ pendingEffect' = FALSE
  /\ UNCHANGED <<provider, trades, storage, clock>>
  /\ UNCHANGED <<ledgerVars, callVars>>

addTrade ==
  \E trade \in TradeData, date \in Dates, written \in BOOLEAN :
    /\ provider = "trades"
    /\ clock < MaxCalls
    /\ LET newTrade == trade @@ [date |-> date, id |-> clock]
           next == SortByDate(Append(trades, newTrade))
           saved == saveToStorage(next, written)
       IN  /\ trades' = next
           /\ storage' = saved.storage
           /\ diag' = saved.diag
           /\ args' = [fn |-> "addTrade", trade |-> newTrade]
    /\ result' = <<undefined>>
    /\ clock' = clock + 1
    /\ UNCHANGED <<provider, transactionLog, processedPortfolio, pendingEffect,
                   replayedLog>>
    /\ UNCHANGED <<shareQuantities, shareTotalCosts, openOptionStates,
                   cumulativeRealizedPL, index, tx, txAfter, prev, rerun>>

ProviderNext ==
  \/ addTransaction
  \/ RecomputeEffect
  \/ addTrade

ProviderSpec == ProviderInit /\ [][ProviderNext]_vars

(***************************************************************************)
(* Reading the mounted provider                                            *)
(***************************************************************************)
CurrentLog == IF provider = "transactionLog" THEN transactionLog ELSE trades

CurrentPortfolio ==
  IF provider = "transactionLog" THEN processedPortfolio
  ELSE useMemoProcessedPortfolio(trades)

\* the clock reading an entry's id was built from: its position among the calls
AddedAt(entry) == IF provider = "transactionLog" THEN entry.id[2] ELSE entry.id

\* the callback applied to log[1], log[2], ... log[n], in this order
RECURSIVE FoldInIndexOrder(_, _)
FoldInIndexOrder(log, n) ==
  IF n = 0 THEN EmptyLedger
  ELSE ProcessTx(FoldInIndexOrder(log, n - 1), log[n]).st

(***************************************************************************)
(* C12: after any sequence of addTransaction / addTrade calls from an      *)
(* empty log the log is in non-decreasing date order and entries of one    *)
(* date are in the order in which they were added; the replay applies the  *)
(* callback to the entries in exactly the order of the log.                *)
(***************************************************************************)
C12_LogInDateOrder ==
  provider # "none" =>
    /\ \A i, j \in DOMAIN CurrentLog :
         i < j =>
           /\ CurrentLog[i].date <= CurrentLog[j].date
           /\ CurrentLog[i].date = CurrentLog[j].date =>
                AddedAt(CurrentLog[i]) < AddedAt(CurrentLog[j])
    /\ Len(CurrentLog) = clock
    /\ ( provider = "transactionLog" /\ ~pendingEffect ) =>
         /\ [f \in {"openShares", "openOptions", "realizedPL"} |->
               processedPortfolio[f]]
            = ProcessedPortfolio(FoldInIndexOrder(replayedLog, Len(replayedLog)))
         /\ [i \in DOMAIN transactionLog |-> transactionLog[i].id]
            = [i \in DOMAIN replayedLog |-> replayedLog[i].id]

\* three entries were added, the last one with an earlier date than the
\* first two, which share a date; the log was replayed
C12_Witness ==
  /\ provider = "transactionLog"
  /\ ~pendingEffect
  /\ Len(transactionLog) = 3
  /\ AddedAt(transactionLog[1]) = 2
  /\ transactionLog[2].date = transactionLog[3].date
  /\ transactionLog[1].date < transactionLog[2].date
  /\ processedPortfolio.openShares # {}

(***************************************************************************)
(* C13: once the recomputation has run, the processed portfolio is the     *)
(* replay of the whole current log from an empty state (open shares, open  *)
(* options, realized P/L) and its transactionLog is the current log.       *)
(***************************************************************************)
C13_DerivedFromWholeLog ==
  ( provider # "none" /\ ~pendingEffect ) =>
    CurrentPortfolio =
      calculateProcessedPortfolio(CurrentLog) @@ [transactionLog |-> CurrentLog]

(***************************************************************************)
(* Option valuation (calculations.ts, black-scholes.ts)                    *)
(*                                                                         *)
(* Numbers are finite rationals (NaN arguments are not modelled).  A Date  *)
(* is its time value in milliseconds; an expiration date is a day number   *)
(* or the string "invalid" (a text that Date cannot parse).                *)
(***************************************************************************)
MaxUnderlying == 3            \* underlying prices: 0 .. MaxUnderlying

RLt(a, b) == a.n * b.d < b.n * a.d
\* Math.max(a, b)
RMax(a, b) == IF RLt(a, b) THEN b ELSE a

DAYS_IN_YEAR == Rat(1461, 4)                   \* 365.25
DEFAULT_IMPLIED_VOLATILITY == Rat(30, 100)
DEFAULT_RISK_FREE_RATE == Rat(4, 100)
TinyTime == Rat(1, 10000)                      \* 0.0001 years

\* new Date(currentDate.toISOString().split('T')[0] + 'T00:00:00Z').getTime()
UTCMidnight(time) == (time \div MsPerDay) * MsPerDay

\* an expiration date is a text: the day number in digits stands for the
\* 'YYYY-MM-DD' text of that day, any other text is one Date cannot parse
DateText(day) == ToString(day)
\* !isNaN(new Date(text + 'T00:00:00Z').getTime())
IsDateText(text) == \E day \in 0 .. MaxDate + 1 : DateText(day) = text
\* new Date(text + 'T00:00:00Z').getTime()
ParseUTCDate(text) ==
  GetTime(CHOOSE day \in 0 .. MaxDate + 1 : DateText(day) = text)

\* fault model: the expiration day itself still counts as a day ahead
TimeToExpirationCountingTheDay(expirationDateStr, currentDate) ==
  IF ~IsDateText(expirationDateStr) THEN RZero
  ELSE LET timeDiff == ParseUTCDate(expirationDateStr) - UTCMidnight(currentDate)
       IN  IF timeDiff < 0 THEN RZero
           ELSE RDiv(Rat(timeDiff + MsPerDay, MsPerDay), DAYS_IN_YEAR)

getTimeToExpirationInYears(expirationDateStr, currentDate) ==
  IF ~IsDateText(expirationDateStr) THEN RZero
  ELSE LET timeDiff == ParseUTCDate(expirationDateStr) - UTCMidnight(currentDate)
       IN  IF timeDiff <= 0 THEN RZero
           ELSE RDiv(Rat(timeDiff, MsPerDay), DAYS_IN_YEAR)

\* fault model: the payoff without its floor at 0
IntrinsicUnfloored(optionType, underlyingPrice, strikePrice) ==
  IF optionType = "call"
  THEN RSub(underlyingPrice, strikePrice)
  ELSE RSub(strikePrice, underlyingPrice)

\* Math.max(0, S - K) for a call, Math.max(0, K - S) for a put
IntrinsicValue(optionType, underlyingPrice, strikePrice) ==
  IF optionType = "call"
  THEN RMax(RZero, RSub(underlyingPrice, strikePrice))
  ELSE RMax(RZero, RSub(strikePrice, underlyingPrice))

\* The closed formula S N(d1) - K exp(-rT) N(d2) (call) or its put form: a
\* number fixed by the arguments, kept as the unevaluated term
ClosedForm(underlyingPrice, strikePrice, riskFreeRate, timeToExpiration, volatility, optionType) ==
  [blackScholes |-> <<underlyingPrice, strikePrice, riskFreeRate,
                      timeToExpiration, volatility, optionType>>,
   times |-> RInt(1)]

blackScholes(underlyingPrice, strikePrice, riskFreeRate, timeToExpiration, volatility, optionType) ==
  IF \/ RLe(underlyingPrice, RZero)
     \/ RLe(strikePrice, RZero)
     \/ RLe(timeToExpiration, RZero)
     \/ RLe(volatility, RZero)
  THEN RZero
  ELSE IF RLt(timeToExpiration, TinyTime)
       THEN IntrinsicValue(optionType, underlyingPrice, strikePrice)
       ELSE ClosedForm(underlyingPrice, strikePrice, riskFreeRate,
                       timeToExpiration, volatility, optionType)

\* value * factor, for a number or for an unevaluated closed-form term
Times(value, factor) ==
  IF "blackScholes" \in DOMAIN value
  THEN [value EXCEPT !.times = RMul(@, factor)]
  ELSE RMul(value, factor)

calculateOptionTheoreticalValue(option, underlyingPrice, currentDate, impliedVolatility, riskFreeRate) ==
  IF RLe(impliedVolatility, RZero) THEN RZero
  ELSE LET timeToExpirationYears ==
             getTimeToExpirationInYears(option.expirationDate, currentDate)
           sign == IF option.positionType = "long" THEN 1 ELSE -1
       IN  IF RLe(timeToExpirationYears, RZero)
           THEN Times(IntrinsicValue(option.optionType, underlyingPrice,
                                     option.strikePrice),
                      RInt(sign * option.quantity * ContractMultiplier))
           ELSE Times(blackScholes(underlyingPrice, option.strikePrice,
                                   riskFreeRate, timeToExpirationYears,
                                   impliedVolatility, option.optionType),
                      RInt(sign * option.quantity * ContractMultiplier))

\* the arguments of one valuation; the callers pass no price below 0
\* (calculatePortfolioTheoreticalValue returns 0 before)
OptionPositions ==
  [optionType : {"call", "put"},
   positionType : {"long", "short"},
   strikePrice : {RInt(k) : k \in 0 .. MaxStrike},
   expirationDate : {DateText(day) : day \in Dates} \cup {"invalid"},
   quantity : Contracts]

ValuationArgs ==
  [option : OptionPositions,
   underlyingPrice : {RInt(price) : price \in 0 .. MaxUnderlying},
   currentDate : {GetTime(day) + sinceMidnight :
                    day \in Dates, sinceMidnight \in {0, MsPerDay \div 2}},
   impliedVolatility : {RNeg(DEFAULT_IMPLIED_VOLATILITY), RZero,
                        DEFAULT_IMPLIED_VOLATILITY},
   riskFreeRate : {DEFAULT_RISK_FREE_RATE}]

PricingInit ==
  /\ args \in ValuationArgs
  /\ result = <<>>
  /\ LedgerIdle
  /\ ProviderIdle

Valuate ==
  /\ result = <<>>
  /\ result' = << calculateOptionTheoreticalValue(args.option,
                    args.underlyingPrice, args.currentDate,
                    args.impliedVolatility, args.riskFreeRate) >>
  /\ UNCHANGED <<args, ledgerVars, providerVars>>

PricingNext == Valuate

PricingSpec == PricingInit /\ [][PricingNext]_vars

\* the last call valued an option whose time to expiration is <= 0
ValuedExpired ==
  /\ result # <<>>
  /\ \/ ~IsDateText(args.option.expirationDate)
     \/ ParseUTCDate(args.option.expirationDate) <= args.currentDate

C15_InvalidInputYieldsZero ==
  ( /\ result # <<>>
    /\ \/ args.underlyingPrice.n <= 0
       \/ args.option.strikePrice.n <= 0
       \/ args.impliedVolatility.n <= 0 ) =>
    result = << RZero >>

(***************************************************************************)
(* P/L curves (calculations.ts)                                            *)
(*                                                                         *)
(* A Portfolio is [shares, options], two sequences of positions.  The P/L  *)
(* of a portfolio that holds an unexpired option contains a closed-form    *)
(* Black-Scholes value and is kept as an unevaluated term.                 *)
(***************************************************************************)
MaxSteps == 3                 \* steps of a curve: -1 .. MaxSteps

\* parseFloat(x.toFixed(2)): the nearest multiple of 0.01, a tie away from 0
ToFixed2(x) ==
  IF "unevaluated" \in DOMAIN x THEN [unevaluated |-> <<"toFixed(2)", x>>]
  ELSE LET magnitude == (2 * 100 * Abs(x.n) + x.d) \div (2 * x.d)
       IN  Rat(IF x.n < 0 THEN -magnitude ELSE magnitude, 100)

RECURSIVE SumSeq(_)
SumSeq(values) ==
  IF values = <<>> THEN RZero ELSE RAdd(Head(values), SumSeq(Tail(values)))

\* the positions with isIncludedInAnalysis !== false
Included(positions) == SelectSeq(positions, LAMBDA pos : pos.isIncludedInAnalysis)

calculateShareValue(share, underlyingPrice) ==
  IF RLt(underlyingPrice, RZero) \/ ~share.isIncludedInAnalysis THEN RZero
  ELSE RMul(RInt(share.quantity), underlyingPrice)

calculateTotalCostBasis(portfolio) ==
  LET shares == Included(portfolio.shares)
      options == Included(portfolio.options)
  IN  RAdd(SumSeq([i \in DOMAIN shares |->
                     RMul(RInt(shares[i].quantity), shares[i].costBasisPerShare)]),
           SumSeq([i \in DOMAIN options |->
                     IF options[i].positionType = "long"
                     THEN RMul(options[i].premium, RInt(options[i].quantity))
                     ELSE RNeg(RMul(options[i].premium, RInt(options[i].quantity)))]))

\* calculatePortfolioTheoreticalValue - calculateTotalCostBasis
calculatePortfolioPL(portfolio, underlyingPrice, currentDate, iv, rate) ==
  IF RLt(underlyingPrice, RZero) THEN RZero
  ELSE LET shares == Included(portfolio.shares)
           options == Included(portfolio.options)
           optionValues ==
             [i \in DOMAIN options |->
                calculateOptionTheoreticalValue(options[i], underlyingPrice,
                                                currentDate, iv, rate)]
       IN  IF \E i \in DOMAIN optionValues : "blackScholes" \in DOMAIN optionValues[i]
           THEN [unevaluated |-> <<"calculatePortfolioPL", portfolio,
                                   underlyingPrice, currentDate, iv, rate>>]
           ELSE RSub(RAdd(SumSeq([i \in DOMAIN shares |->
                                    calculateShareValue(shares[i], underlyingPrice)]),
                          SumSeq(optionValues)),
                     calculateTotalCostBasis(portfolio))

calculateOptionValueAtExpiration(option, underlyingPriceAtExpiration) ==
  IF RLt(underlyingPriceAtExpiration, RZero) \/ ~option.isIncludedInAnalysis
  THEN RZero
  ELSE RMul(IntrinsicValue(option.optionType, underlyingPriceAtExpiration,
                           option.strikePrice),
            RInt((IF option.positionType = "long" THEN 1 ELSE -1)
                   * option.quantity * ContractMultiplier))

calculatePortfolioPLAtExpiration(portfolio, underlyingPriceAtExpiration) ==
  IF RLt(underlyingPriceAtExpiration, RZero) THEN RZero
  ELSE LET shares == Included(portfolio.shares)
           options == Included(portfolio.options)
       IN  RSub(RAdd(SumSeq([i \in DOMAIN shares |->
                       calculateShareValue(shares[i], underlyingPriceAtExpiration)]),
                     SumSeq([i \in DOMAIN options |->
                       calculateOptionValueAtExpiration(options[i],
                                                        underlyingPriceAtExpiration)])),
                calculateTotalCostBasis(portfolio))

calculateBenchmarkPL(quantity, costBasisPerShare, underlyingPrice) ==
  IF quantity <= 0 \/ RLt(costBasisPerShare, RZero) THEN RZero
  ELSE RSub(RMul(RInt(quantity), underlyingPrice),
            RMul(RInt(quantity), costBasisPerShare))

\* fault model: the loop stops before the last sample (i < steps)
SamplePricesOpenEnded(rangeStart, rangeEnd, steps) ==
  LET stepSize == RDiv(RSub(rangeEnd, rangeStart), RInt(steps))
  IN  [k \in 1 .. steps |-> RAdd(rangeStart, RMul(RInt(k - 1), stepSize))]

\* the prices of the loop for (i = 0; i <= steps; i++), before rounding
SamplePrices(rangeStart, rangeEnd, steps) ==
  LET stepSize == RDiv(RSub(rangeEnd, rangeStart), RInt(steps))
  IN  [k \in 1 .. steps + 1 |-> RAdd(rangeStart, RMul(RInt(k - 1), stepSize))]

\* (a point whose P/L is NaN would be left out; no NaN arises from the finite
\* numbers of the model)
generatePLData(portfolio, rangeStart, rangeEnd, steps, currentDate, iv, rate) ==
  IF ~RLt(rangeStart, rangeEnd) \/ steps <= 0 THEN <<>>
  ELSE LET prices == SamplePrices(rangeStart, rangeEnd, steps)
       IN  [k \in DOMAIN prices |->
              [price |-> ToFixed2(prices[k]),
               pl |-> ToFixed2(calculatePortfolioPL(portfolio, prices[k],
                                                    currentDate, iv, rate))]]

generateExpirationPLData(portfolio, rangeStart, rangeEnd, steps) ==
  IF ~RLt(rangeStart, rangeEnd) \/ steps <= 0 THEN <<>>
  ELSE LET prices == SamplePrices(rangeStart, rangeEnd, steps)
       IN  [k \in DOMAIN prices |->
              [price |-> ToFixed2(prices[k]),
               pl |-> ToFixed2(calculatePortfolioPLAtExpiration(portfolio,
                                                                prices[k]))]]

generateBenchmarkPLData(quantity, costBasisPerShare, rangeStart, rangeEnd, steps) ==
  IF \/ quantity <= 0
     \/ RLt(costBasisPerShare, RZero)
     \/ ~RLt(rangeStart, rangeEnd)
     \/ steps <= 0
  THEN <<>>
  ELSE LET prices == SamplePrices(rangeStart, rangeEnd, steps)
       IN  [k \in DOMAIN prices |->
              [price |-> ToFixed2(prices[k]),
               pl |-> ToFixed2(calculateBenchmarkPL(quantity, costBasisPerShare,
                                                    prices[k]))]]

\* fault model: a zero difference counts as being on either side
SignChangeOrZero(prevDiff, currentDiff) ==
  \/ RLe(prevDiff, RZero) /\ RLe(RZero, currentDiff)
  \/ RLe(RZero, prevDiff) /\ RLe(currentDiff, RZero)

\* fault model: only a crossing from below is detected
SignChangeUpwardOnly(prevDiff, currentDiff) ==
  RLt(prevDiff, RZero) /\ RLe(RZero, currentDiff)

\* (prevDiff < 0 && currentDiff >= 0) || (prevDiff > 0 && currentDiff <= 0)
SignChange(prevDiff, currentDiff) ==
  \/ RLt(prevDiff, RZero) /\ RLe(RZero, currentDiff)
  \/ RLt(RZero, prevDiff) /\ RLe(currentDiff, RZero)

RAbs(x) == IF x.n < 0 THEN RNeg(x) ELSE x

\* the crossover pushed for the samples i - 1 and i
Interpolate(price1, price2, prevDiff, currentDiff) ==
  IF RSub(currentDiff, prevDiff) # RZero
  THEN LET t == RDiv(RAbs(prevDiff), RAbs(RSub(currentDiff, prevDiff)))
       IN  RAdd(price1, RMul(t, RSub(price2, price1)))
  ELSE price2

\* the loop for (i = 1; i < length; i++) from sample i (counted from 1) on
RECURSIVE ScanCrossovers(_, _, _, _, _)
ScanCrossovers(expirationData, benchmarkData, i, prevDiff, crossovers) ==
  IF i > Len(expirationData) THEN crossovers
  ELSE LET currentDiff == RSub(expirationData[i].pl, benchmarkData[i].pl)
           pushed == IF SignChange(prevDiff, currentDiff)
                     THEN Append(crossovers,
                            Interpolate(expirationData[i - 1].price,
                                        expirationData[i].price,
                                        prevDiff, currentDiff))
                     ELSE crossovers
       IN  ScanCrossovers(expirationData, benchmarkData, i + 1,
                          IF currentDiff # RZero THEN currentDiff ELSE prevDiff,
                          pushed)

\* values.filter((val, idx, self) => self.indexOf(val) === idx)
Deduplicate(values) ==
  LET firstIndices == {i \in DOMAIN values : \A j \in 1 .. i - 1 : values[j] # values[i]}
      RECURSIVE Pick(_)
      Pick(i) == IF i > Len(values) THEN <<>>
                 ELSE (IF i \in firstIndices THEN <<values[i]>> ELSE <<>>) \o Pick(i + 1)
  IN  Pick(1)

findCrossoverPoints(portfolio, benchmarkQuantity, benchmarkCostBasis, rangeStart, rangeEnd, steps) ==
  IF \/ benchmarkQuantity <= 0
     \/ RLt(benchmarkCostBasis, RZero)
     \/ ~RLt(rangeStart, rangeEnd)
     \/ steps <= 0
  THEN <<>>
  ELSE LET expirationData ==
             generateExpirationPLData(portfolio, rangeStart, rangeEnd, steps)
           benchmarkData ==
             generateBenchmarkPLData(benchmarkQuantity, benchmarkCostBasis,
                                     rangeStart, rangeEnd, steps)
       IN  IF \/ Len(expirationData) = 0
              \/ Len(benchmarkData) = 0
              \/ Len(expirationData) # Len(benchmarkData)
           THEN <<>>
           ELSE Deduplicate(
                  ScanCrossovers(expirationData, benchmarkData, 2,
                    RSub(expirationData[1].pl, benchmarkData[1].pl), <<>>))

(***************************************************************************)
(* Calls of the curve functions                                            *)
(***************************************************************************)
SharePositions ==
  { [quantity |-> 100, costBasisPerShare |-> RInt(1),
     isIncludedInAnalysis |-> included] : included \in BOOLEAN }

\* a short call that has expired on day 1 and a long put that expires on
\* the last day
ShortCall ==
  [optionType |-> "call", positionType |-> "short", strikePrice |-> RInt(2),
   expirationDate |-> DateText(1), quantity |-> 1, premium |-> RInt(50),
   isIncludedInAnalysis |-> TRUE]
LongPut ==
  [optionType |-> "put", positionType |-> "long", strikePrice |-> RInt(1),
   expirationDate |-> DateText(MaxDate), quantity |-> 1, premium |-> RInt(50),
   isIncludedInAnalysis |-> TRUE]

Portfolios ==
  [shares : {<<>>} \cup {<<share>> : share \in SharePositions},
   options : {<<>>, <<ShortCall>>, <<LongPut>>, <<ShortCall, LongPut>>}]

RangeValues == {RInt(price) : price \in 0 .. MaxUnderlying}
StepCounts == -1 .. MaxSteps
BenchmarkQuantities == {50 * i : i \in 0 .. MaxLots}
BenchmarkCostBases == {RInt(cost) : cost \in -1 .. MaxPrice}

TheoreticalArgs ==
  [fn : {"generatePLData"}, portfolio : Portfolios,
   rangeStart : RangeValues, rangeEnd : RangeValues, steps : StepCounts,
   currentDate : {GetTime(day) : day \in Dates},
   iv : {DEFAULT_IMPLIED_VOLATILITY}, rate : {DEFAULT_RISK_FREE_RATE}]
ExpirationArgs ==
  [fn : {"generateExpirationPLData"}, portfolio : Portfolios,
   rangeStart : RangeValues, rangeEnd : RangeValues, steps : StepCounts]
BenchmarkArgs ==
  [fn : {"generateBenchmarkPLData"}, quantity : BenchmarkQuantities,
   costBasisPerShare : BenchmarkCostBases,
   rangeStart : RangeValues, rangeEnd : RangeValues, steps : StepCounts]
CrossoverArgs ==
  [fn : {"findCrossoverPoints"}, portfolio : Portfolios,
   benchmarkQuantity : BenchmarkQuantities,
   benchmarkCostBasis : BenchmarkCostBases,
   rangeStart : RangeValues, rangeEnd : RangeValues, steps : StepCounts]

CurveInit ==
  /\ args \in TheoreticalArgs \cup ExpirationArgs \cup BenchmarkArgs \cup CrossoverArgs
  /\ result = <<>>
  /\ LedgerIdle
  /\ ProviderIdle

TheoreticalCurve ==
  /\ result = <<>>
  /\ args.fn = "generatePLData"
  /\ result' = << generatePLData(args.portfolio, args.rangeStart, args.rangeEnd,
                                 args.steps, args.currentDate, args.iv, args.rate) >>
  /\ UNCHANGED <<args, ledgerVars, providerVars>>

ExpirationCurve ==
  /\ result = <<>>
  /\ args.fn = "generateExpirationPLData"
  /\ result' = << generateExpirationPLData(args.portfolio, args.rangeStart,
                                           args.rangeEnd, args.steps) >>
  /\ UNCHANGED <<args, ledgerVars, providerVars>>

BenchmarkCurve ==
  /\ result = <<>>
  /\ args.fn = "generateBenchmarkPLData"
  /\ result' = << generateBenchmarkPLData(args.quantity, args.costBasisPerShare,
                                          args.rangeStart, args.rangeEnd,
                                          args.steps) >>
  /\ UNCHANGED <<args, ledgerVars, providerVars>>

FindCrossovers ==
  /\ result = <<>>
  /\ args.fn = "findCrossoverPoints"
  /\ result' = << findCrossoverPoints(args.portfolio, args.benchmarkQuantity,
                                      args.benchmarkCostBasis, args.rangeStart,
                                      args.rangeEnd, args.steps) >>
  /\ UNCHANGED <<args, ledgerVars, providerVars>>

CurveNext ==
  \/ TheoreticalCurve
  \/ ExpirationCurve
  \/ BenchmarkCurve
  \/ FindCrossovers

CurveSpec == CurveInit /\ [][CurveNext]_vars

\* a curve generator has returned
CurveReturned ==
  /\ result # <<>>
  /\ args.fn \in {"generatePLData", "generateExpirationPLData",
                  "generateBenchmarkPLData"}

\* the call is within the generator's contract (benchmark: quantity > 0 and
\* a cost basis that is not negative)
CurveContract ==
  args.fn = "generateBenchmarkPLData" =>
    args.quantity > 0 /\ ~RLt(args.costBasisPerShare, RZero)

\* low >= high or steps <= 0
DegenerateRange == ~RLt(args.rangeStart, args.rangeEnd) \/ args.steps <= 0

\* x is a multiple of 0.01
IsMultipleOfCent(x) == 100 % x.d = 0

\* low + i * (high - low) / steps
ExactSample(i) ==
  RAdd(args.rangeStart,
       RDiv(RMul(RInt(i), RSub(args.rangeEnd, args.rangeStart)), RInt(args.steps)))

ComparedExpirationCurve ==
  generateExpirationPLData(args.portfolio, args.rangeStart, args.rangeEnd, args.steps)
ComparedBenchmarkCurve ==
  generateBenchmarkPLData(args.benchmarkQuantity, args.benchmarkCostBasis,
                          args.rangeStart, args.rangeEnd, args.steps)

\* expirationData[i].pl - benchmarkData[i].pl
ComparedDiff(i) == RSub(ComparedExpirationCurve[i].pl, ComparedBenchmarkCurve[i].pl)

\* findCrossoverPoints has returned after comparing two curves whose P/L
\* differ by the same amount at every sample
ComparedAtConstantOffset ==
  /\ result # <<>>
  /\ args.fn = "findCrossoverPoints"
  /\ Len(ComparedBenchmarkCurve) > 0
  /\ \A i \in DOMAIN ComparedBenchmarkCurve : ComparedDiff(i) = ComparedDiff(1)

(***************************************************************************)
(* C17: findCrossoverPoints returns the empty array when the expiration    *)
(* curve and the benchmark curve are identical at every sample, and when   *)
(* they differ by the same nonzero constant at every sample.               *)
(***************************************************************************)
C17_NoCrossoverAtConstantOffset ==
  ComparedAtConstantOffset => result[1] = <<>>

\* 100 shares bought at 1 against a benchmark of 100 shares at another cost:
\* the curves are a nonzero constant apart at each of at least three samples
C17_Witness ==
  /\ ComparedAtConstantOffset
  /\ ComparedDiff(1) # RZero
  /\ Len(ComparedBenchmarkCurve) >= 3
  /\ ComparedBenchmarkCurve[1].pl # ComparedBenchmarkCurve[2].pl
  /\ result[1] = <<>>

(***************************************************************************)
(* Performance metrics (performanceMetrics.ts)                             *)
(*                                                                         *)
(* An ISO date 'YYYY-MM-DD' is the tuple <<year, month, day>> of its       *)
(* zero-padded fields, so that slice(0, 7) is <<year, month>>, slice(0, 4) *)
(* is <<year>> and the order of strings is the lexicographic order of the  *)
(* tuples.  An object used as a map is the sequence of its [key, value]    *)
(* properties in property order.  A trade carries the fields the metrics   *)
(* read: direction, entryPrice, exitPrice, quantity and exitDate.          *)
(***************************************************************************)
MaxTrades == 3                \* trades of a list

\* a number field of a trade: <<v>> for the number v, <<>> for NaN
NaN == <<>>
Num(v) == <<v>>
isNaN(x) == x = NaN
Val(x) == x[1]

\* fault model: a short trade is computed like a long one
RealizedPLIgnoringDirection(trade) ==
  IF isNaN(trade.entryPrice) \/ isNaN(trade.exitPrice) \/ isNaN(trade.quantity)
  THEN 0
  ELSE IF Val(trade.quantity) <= 0 THEN 0
  ELSE (Val(trade.exitPrice) - Val(trade.entryPrice)) * Val(trade.quantity)

calculateRealizedPL(trade) ==
  IF isNaN(trade.entryPrice) \/ isNaN(trade.exitPrice) \/ isNaN(trade.quantity)
  THEN 0
  ELSE IF Val(trade.quantity) <= 0 THEN 0
  ELSE LET priceDiff == IF trade.direction = "long"
                        THEN Val(trade.exitPrice) - Val(trade.entryPrice)
                        ELSE Val(trade.entryPrice) - Val(trade.exitPrice)
       IN  priceDiff * Val(trade.quantity)

\* trades.map((t) => ({ ...t, realizedPL: calculateRealizedPL(t) }))
calculateTradeResults(tradeList) ==
  [i \in DOMAIN tradeList |->
     tradeList[i] @@ [realizedPL |-> calculateRealizedPL(tradeList[i])]]

\* fault model: a break-even trade counts as a winner
SuccessRateCountingBreakEven(tradeResults) ==
  IF Len(tradeResults) = 0 THEN RZero
  ELSE LET winners == Len(SelectSeq(tradeResults, LAMBDA t : t.realizedPL >= 0))
       IN  RMul(Rat(winners, Len(tradeResults)), RInt(100))

calculateSuccessRate(tradeResults) ==
  IF Len(tradeResults) = 0 THEN RZero
  ELSE LET winners == Len(SelectSeq(tradeResults, LAMBDA t : t.realizedPL > 0))
       IN  RMul(Rat(winners, Len(tradeResults)), RInt(100))

\* date.slice(0, 7) and date.slice(0, 4)
SliceMonth(date) == SubSeq(date, 1, 2)
SliceYear(date) == SubSeq(date, 1, 1)

\* a < b for two strings given as tuples of fields
StringLess(a, b) ==
  \E i \in DOMAIN a : a[i] < b[i] /\ \A j \in 1 .. i - 1 : a[j] = b[j]

\* totals[key] = (totals[key] ?? 0) + value, on an object kept as entries
AddToKey(totals, key, value) ==
  IF \E i \in DOMAIN totals : totals[i].key = key
  THEN [i \in DOMAIN totals |->
          IF totals[i].key = key
          THEN [totals[i] EXCEPT !.value = @ + value]
          ELSE totals[i]]
  ELSE Append(totals, [key |-> key, value |-> value])

\* accumulateBy, given the key of each trade
RECURSIVE accumulateBy(_, _, _)
accumulateBy(tradeResults, keys, totals) ==
  IF tradeResults = <<>> THEN totals
  ELSE accumulateBy(Tail(tradeResults), Tail(keys),
                    AddToKey(totals, Head(keys), Head(tradeResults).realizedPL))

\* fault model: the keys are taken as Object.keys returns them
KeysAsInserted(keys) == keys

\* keys.sort(): insertion sort with the default (string) order
RECURSIVE SortStrings(_)
SortStrings(keys) ==
  IF keys = <<>> THEN <<>>
  ELSE LET front == SortStrings(SubSeq(keys, 1, Len(keys) - 1))
           last == keys[Len(keys)]
           k == Cardinality({i \in DOMAIN front : ~StringLess(last, front[i])})
       IN  SubSeq(front, 1, k) \o <<last>> \o SubSeq(front, k + 1, Len(front))

\* Object.keys(object): keys that are canonical integers ('2024') come in
\* ascending numeric order, other keys in insertion order
ObjectKeys(entries) ==
  LET inserted == [i \in DOMAIN entries |-> entries[i].key]
  IN  IF inserted # <<>> /\ Len(inserted[1]) = 1
      THEN SortStrings(inserted)
      ELSE inserted

\* object[key]
Lookup(entries, key) ==
  (CHOOSE entry \in {entries[i] : i \in DOMAIN entries} : entry.key = key).value

\* the loop: running += totals[k]; cumulative[k] = running
RECURSIVE RunningTotals(_, _, _)
RunningTotals(totals, sortedKeys, running) ==
  IF sortedKeys = <<>> THEN <<>>
  ELSE LET next == running + Lookup(totals, Head(sortedKeys))
       IN  <<[key |-> Head(sortedKeys), value |-> next]>>
             \o RunningTotals(totals, Tail(sortedKeys), next)

cumulativeReturnsByMonth(tradeResults) ==
  LET monthly == accumulateBy(tradeResults,
                   [i \in DOMAIN tradeResults |-> SliceMonth(tradeResults[i].exitDate)],
                   <<>>)
      sortedMonths == SortStrings(ObjectKeys(monthly))
  IN  RunningTotals(monthly, sortedMonths, 0)

cumulativeReturnsByYear(tradeResults) ==
  LET yearly == accumulateBy(tradeResults,
                  [i \in DOMAIN tradeResults |-> SliceYear(tradeResults[i].exitDate)],
                  <<>>)
      sortedYears == SortStrings(ObjectKeys(yearly))
  IN  RunningTotals(yearly, sortedYears, 0)

\* ---- inputs of the calls ----
Directions == {"long", "short"}
ExitDates == {<<2024, 1, 10>>, <<2024, 3, 1>>, <<2024, 3, 20>>, <<2025, 1, 5>>}

\* one trade, with every kind of number in its fields
SingleTrades ==
  [direction : Directions,
   entryPrice : {NaN} \cup {Num(p) : p \in Prices},
   exitPrice : {NaN} \cup {Num(p) : p \in Prices},
   quantity : {NaN} \cup {Num(q) : q \in -1 .. MaxContracts},
   exitDate : {<<2024, 1, 10>>}]

\* the closed trades of a list: one unit each, won, lost or broken even
ListTrades ==
  [direction : Directions,
   entryPrice : {Num(1)},
   exitPrice : {Num(p) : p \in Prices},
   quantity : {Num(1)},
   exitDate : ExitDates]

RECURSIVE SeqsUpTo(_, _)
SeqsUpTo(S, n) ==
  IF n = 0 THEN {<<>>}
  ELSE LET shorter == SeqsUpTo(S, n - 1)
       IN  shorter \cup {Append(q, x) : q \in shorter, x \in S}

TradeLists == SeqsUpTo(ListTrades, MaxTrades)

RealizedPLArgs == [fn : {"calculateRealizedPL"}, trade : SingleTrades]
ListArgs ==
  [fn : {"calculateSuccessRate", "cumulativeReturnsByMonth", "cumulativeReturnsByYear"},
   trades : TradeLists]

MetricsInit ==
  /\ args \in RealizedPLArgs \cup ListArgs
  /\ result = <<>>
  /\ LedgerIdle
  /\ ProviderIdle

RealizedPL ==
  /\ result = <<>>
  /\ args.fn = "calculateRealizedPL"
  /\ result' = << calculateRealizedPL(args.trade) >>
  /\ UNCHANGED <<args, ledgerVars, providerVars>>

\* the list metrics are given the output of calculateTradeResults
SuccessRate ==
  /\ result = <<>>
  /\ args.fn = "calculateSuccessRate"
  /\ result' = << calculateSuccessRate(calculateTradeResults(args.trades)) >>
  /\ UNCHANGED <<args, ledgerVars, providerVars>>

ReturnsByMonth ==
  /\ result = <<>>
  /\ args.fn = "cumulativeReturnsByMonth"
  /\ result' = << cumulativeReturnsByMonth(calculateTradeResults(args.trades)) >>
  /\ UNCHANGED <<args, ledgerVars, providerVars>>

ReturnsByYear ==
  /\ result = <<>>
  /\ args.fn = "cumulativeReturnsByYear"
  /\ result' = << cumulativeReturnsByYear(calculateTradeResults(args.trades)) >>
  /\ UNCHANGED <<args, ledgerVars, providerVars>>

MetricsNext ==
  \/ RealizedPL
  \/ SuccessRate
  \/ ReturnsByMonth
  \/ ReturnsByYear

MetricsSpec == MetricsInit /\ [][MetricsNext]_vars

\* the sample trades of performanceMetrics.test.ts
SampleTrades ==
  << [direction |-> "long", entryPrice |-> Num(100), exitPrice |-> Num(110),
      quantity |-> Num(1), exitDate |-> <<2024, 1, 10>>],
     [direction |-> "long", entryPrice |-> Num(50), exitPrice |-> Num(40),
      quantity |-> Num(2), exitDate |-> <<2024, 3, 1>>],
     [direction |-> "short", entryPrice |-> Num(20), exitPrice |-> Num(15),
      quantity |-> Num(1), exitDate |-> <<2024, 3, 20>> ] >>

OppositeDirection(direction) == IF direction = "long" THEN "short" ELSE "long"

\* C18: calculateRealizedPL of a long trade is (exit price - entry price) x
\* quantity and of a short trade (entry price - exit price) x quantity; it is 0
\* when the quantity is not positive or when entry price, exit price or
\* quantity is not a number; so the two directions of the same trade have
\* opposite results.
C18_RealizedPLByDirection ==
  /\ (result # <<>> /\ args.fn = "calculateRealizedPL") =>
       LET t == args.trade
           numbers == t.entryPrice # NaN /\ t.exitPrice # NaN /\ t.quantity # NaN
           opposite == [t EXCEPT !.direction = OppositeDirection(t.direction)]
       IN  /\ (~numbers \/ Val(t.quantity) <= 0) => result = <<0>>
           /\ (numbers /\ Val(t.quantity) > 0 /\ t.direction = "long") =>
                result = << (Val(t.exitPrice) - Val(t.entryPrice)) * Val(t.quantity) >>
           /\ (numbers /\ Val(t.quantity) > 0 /\ t.direction = "short") =>
                result = << (Val(t.entryPrice) - Val(t.exitPrice)) * Val(t.quantity) >>
           /\ calculateRealizedPL(opposite) = 0 - result[1]
  /\ result = <<>> =>
       /\ calculateRealizedPL(SampleTrades[1]) = 10
       /\ calculateRealizedPL(SampleTrades[2]) = -20
       /\ calculateRealizedPL(SampleTrades[3]) = 5

\* a short trade closed below its entry has returned its gain
C18_Witness ==
  /\ result # <<>>
  /\ args.fn = "calculateRealizedPL"
  /\ result = <<MaxContracts>>
  /\ args.trade.direction = "short"
  /\ args.trade.entryPrice = Num(2)
  /\ args.trade.exitPrice = Num(1)
  /\ args.trade.quantity = Num(MaxContracts)

RECURSIVE TotalPL(_)
TotalPL(tradeResults) ==
  IF tradeResults = <<>> THEN 0
  ELSE Head(tradeResults).realizedPL + TotalPL(Tail(tradeResults))

\* the cumulative object: one key per period that has a trade, in ascending
\* order, each with the realized P/L of the trades closed up to that period
CumulativeOver(cumulative, tradeResults, Period(_)) ==
  /\ {cumulative[i].key : i \in DOMAIN cumulative}
       = {Period(tradeResults[i].exitDate) : i \in DOMAIN tradeResults}
  /\ \A i \in 1 .. Len(cumulative) - 1 :
       StringLess(cumulative[i].key, cumulative[i + 1].key)
  /\ \A i \in DOMAIN cumulative :
       cumulative[i].value =
         TotalPL(SelectSeq(tradeResults,
                           LAMBDA t : ~StringLess(cumulative[i].key, Period(t.exitDate))))
  /\ tradeResults # <<>> =>
       cumulative[Len(cumulative)].value = TotalPL(tradeResults)

\* C19: cumulativeReturnsByMonth and cumulativeReturnsByYear group the trades
\* by the month ('YYYY-MM') / year ('YYYY') of the exit date, sum the realized
\* P/L of each group and return running totals in ascending key order; the
\* value at the latest month and the value at the latest year both equal the
\* total realized P/L of all the trades.
C19_CumulativeReturns ==
  /\ (result # <<>> /\ args.fn = "cumulativeReturnsByMonth") =>
       LET tradeResults == calculateTradeResults(args.trades)
           byYear == cumulativeReturnsByYear(tradeResults)
       IN  /\ CumulativeOver(result[1], tradeResults, SliceMonth)
           /\ tradeResults # <<>> =>
                result[1][Len(result[1])].value = byYear[Len(byYear)].value
  /\ (result # <<>> /\ args.fn = "cumulativeReturnsByYear") =>
       CumulativeOver(result[1], calculateTradeResults(args.trades), SliceYear)
  /\ result = <<>> =>
       /\ cumulativeReturnsByMonth(calculateTradeResults(SampleTrades))
            = << [key |-> <<2024, 1>>, value |-> 10],
                 [key |-> <<2024, 3>>, value |-> -5] >>
       /\ cumulativeReturnsByYear(calculateTradeResults(SampleTrades))
            = << [key |-> <<2024>>, value |-> -5] >>

\* trades listed out of date order, two of them in one month of one year and
\* one in an earlier month of the next year, have been accumulated by month
C19_Witness ==
  /\ result # <<>>
  /\ args.fn = "cumulativeReturnsByMonth"
  /\ Len(args.trades) = MaxTrades
  /\ args.trades[1].exitDate = <<2025, 1, 5>>
  /\ args.trades[2].exitDate = <<2024, 3, 20>>
  /\ args.trades[3].exitDate = <<2024, 3, 1>>
  /\ \A i \in 1 .. 3 : calculateRealizedPL(args.trades[i]) = 1
  /\ result[1] = << [key |-> <<2024, 3>>, value |-> 2],
                    [key |-> <<2025, 1>>, value |-> 3] >>

\* C20: calculateSuccessRate is 100 x (trades with realized P/L > 0) / (number
\* of trades), 0 for an empty list, and lies between 0 and 100; a break-even
\* trade is not a winner.
C20_SuccessRate ==
  /\ (result # <<>> /\ args.fn = "calculateSuccessRate") =>
       LET tradeResults == calculateTradeResults(args.trades)
           winners == Cardinality({i \in DOMAIN tradeResults :
                                     tradeResults[i].realizedPL > 0})
       IN  /\ tradeResults = <<>> => result = <<RZero>>
           /\ tradeResults # <<>> =>
                result = << Rat(100 * winners, Len(tradeResults)) >>
           /\ RLe(RZero, result[1]) /\ RLe(result[1], RInt(100))
  /\ result = <<>> =>
       calculateSuccessRate(calculateTradeResults(SampleTrades)) = Rat(200, 3)

\* a winner, a loser and a break-even trade have been rated one in three
C20_Witness ==
  /\ result # <<>>
  /\ args.fn = "calculateSuccessRate"
  /\ result = << Rat(100, 3) >>
  /\ Len(args.trades) = 3
  /\ calculateRealizedPL(args.trades[1]) > 0
  /\ calculateRealizedPL(args.trades[2]) < 0
  /\ calculateRealizedPL(args.trades[3]) = 0

(***************************************************************************)
(* Further properties of the replay                                        *)
(***************************************************************************)
\* the side of the share trade of the last assignment/exercise
LastShareSide ==
  IF \/ PrevSeries.positionType = "short" /\ PrevSeries.optionType = "put"
     \/ PrevSeries.positionType = "long" /\ PrevSeries.optionType = "call"
  THEN "BUY_SHARE" ELSE "SELL_SHARE"

\* the ledger an explicit share trade of the assigned quantity x 100 at the
\* strike, without commission, leaves when applied to the ledger as it was
\* before the assignment/exercise
ExplicitShareTrade ==
  ProcessTx(prev, ShareTx(LastShareSide, tx.ticker, txAfter.quantity * 100,
                          tx.strikePrice, 0)).st

C22_ProRataReduction ==
  ( LastAppliedToSeries /\ tx.quantity < PrevSeries.quantity ) =>
    LET n == PrevSeries.quantity
        k == tx.quantity
        left == openOptionStates[tx.optionId]
    IN  /\ tx.optionId \in DOMAIN openOptionStates
        /\ left.quantity = n - k
        /\ left.netPremiumValue = RMul(PrevSeries.netPremiumValue, Rat(n - k, n))
        /\ left.commissionPaid = RMul(PrevSeries.commissionPaid, Rat(n - k, n))
        /\ RDiv(left.netPremiumValue, RInt(n - k))
             = RDiv(PrevSeries.netPremiumValue, RInt(n))
        /\ RDiv(left.commissionPaid, RInt(n - k))
             = RDiv(PrevSeries.commissionPaid, RInt(n))

\* part of a series that carries a commission was assigned or exercised
C22_Witness ==
  /\ LastAppliedToSeries
  /\ tx.transactionType \in AssignTypes
  /\ tx.quantity < PrevSeries.quantity
  /\ PrevSeries.commissionPaid # RZero
  /\ openOptionStates[tx.optionId].commissionPaid # PrevSeries.commissionPaid

(***************************************************************************)
(* Further properties of findCrossoverPoints                               *)
(***************************************************************************)
\* prevDiff when the loop examines sample i (counted from 1, i >= 2): the
\* difference at the first sample, replaced by every later nonzero difference
RECURSIVE PrevDiffAt(_)
PrevDiffAt(i) ==
  IF i = 2 THEN ComparedDiff(1)
  ELSE IF ComparedDiff(i - 1) # RZero THEN ComparedDiff(i - 1)
  ELSE PrevDiffAt(i - 1)

\* the price the loop pushes at sample i
PushedAt(i) ==
  Interpolate(ComparedExpirationCurve[i - 1].price, ComparedExpirationCurve[i].price,
              PrevDiffAt(i), ComparedDiff(i))

\* findCrossoverPoints has returned after comparing two curves
ComparedCurves ==
  /\ result # <<>>
  /\ args.fn = "findCrossoverPoints"
  /\ Len(ComparedBenchmarkCurve) > 0

\* the loop detects a sign change at sample i
DetectedAt(i) ==
  \/ RLt(PrevDiffAt(i), RZero) /\ RLe(RZero, ComparedDiff(i))
  \/ RLt(RZero, PrevDiffAt(i)) /\ RLe(ComparedDiff(i), RZero)

\* p[i-1] + (|diff[i-1]| / |diff[i] - diff[i-1]|) x (p[i] - p[i-1]), and p[i]
\* when the two differences are equal
InterpolatedBetween(i) ==
  LET p1 == ComparedExpirationCurve[i - 1].price
      p2 == ComparedExpirationCurve[i].price
      d1 == ComparedDiff(i - 1)
      d2 == ComparedDiff(i)
  IN  IF d1 = d2 THEN p2
      ELSE RAdd(p1, RMul(RDiv(RAbs(d1), RAbs(RSub(d2, d1))), RSub(p2, p1)))

\* the value at price of the straight line through (p[i-1], diff[i-1]) and
\* (p[i], diff[i])
LineAt(i, price) ==
  LET p1 == ComparedExpirationCurve[i - 1].price
      p2 == ComparedExpirationCurve[i].price
      d1 == ComparedDiff(i - 1)
      d2 == ComparedDiff(i)
  IN  RAdd(d1, RMul(RSub(d2, d1), RDiv(RSub(price, p1), RSub(p2, p1))))

\* C23: at every sample i where findCrossoverPoints detects a sign change the
\* price it reports is p[i-1] + (|diff[i-1]| / |diff[i] - diff[i-1]|) x
\* (p[i] - p[i-1]) with diff[i-1] the difference of the curves at sample
\* i - 1; it lies in [p[i-1], p[i]] and is a zero of the straight line through
\* (p[i-1], diff[i-1]) and (p[i], diff[i]).
C23_InterpolatedFromBracket ==
  ComparedCurves =>
    \A i \in 2 .. Len(ComparedBenchmarkCurve) :
      DetectedAt(i) =>
        /\ PushedAt(i) = InterpolatedBetween(i)
        /\ RLe(ComparedExpirationCurve[i - 1].price, PushedAt(i))
        /\ RLe(PushedAt(i), ComparedExpirationCurve[i].price)
        /\ LineAt(i, PushedAt(i)) = RZero

\* some returned price lies between the samples a and b
ReportedBetween(a, b) ==
  \E j \in DOMAIN result[1] :
    /\ RLe(ComparedExpirationCurve[a].price, result[1][j])
    /\ RLe(result[1][j], ComparedExpirationCurve[b].price)

OppositeSigns(d1, d2) ==
  \/ RLt(d1, RZero) /\ RLt(RZero, d2)
  \/ RLt(RZero, d1) /\ RLt(d2, RZero)

\* C24: whenever the difference of the curves is strictly negative at one
\* sample and strictly positive at a later one (or the reverse), whatever
\* zero differences lie in between, findCrossoverPoints returns a price
\* between those two samples; and it returns no price twice.
C24_NoCrossingMissed ==
  ComparedCurves =>
    /\ \A a, b \in DOMAIN ComparedBenchmarkCurve :
         ( a < b /\ OppositeSigns(ComparedDiff(a), ComparedDiff(b)) )
           => ReportedBetween(a, b)
    /\ \A j, k \in DOMAIN result[1] : result[1][j] = result[1][k] => j = k

\* the curves are apart, meet at a sample and are apart the other way round
C24_Witness ==
  /\ ComparedCurves
  /\ Len(ComparedBenchmarkCurve) >= 3
  /\ OppositeSigns(ComparedDiff(1), ComparedDiff(3))
  /\ ComparedDiff(2) = RZero
  /\ ReportedBetween(1, 3)

(***************************************************************************)
(* The useTrades hook on its own: addTrade, updateTrade, deleteTrade and   *)
(* loadFromStorage, every call at a later clock tick.  args is the last    *)
(* call, result its return value, diag what it logged to the console.      *)
(***************************************************************************)
\* the Partial<Trade> objects handed to updateTrade
TradeChanges ==
  {[date |-> date] : date \in Dates} \cup {[quantity |-> MaxContracts + 1]}

\* the ids Date.now() has produced, and one it has not
TradeIds == 0 .. MaxCalls

\* prev.map((t) => (t.id === id ? { ...t, ...changes } : t))
MapChanges(items, id, changes) ==
  [i \in DOMAIN items |->
     IF items[i].id = id THEN changes @@ items[i] ELSE items[i]]

\* prev.filter((t) => t.id !== id)
FilterOut(items, id) == SelectSeq(items, LAMBDA t : t.id # id)

\* useState initializer with nothing stored
TradesInit ==
  /\ provider = "trades"
  /\ trades = <<>>
  /\ storage = <<>>
  /\ clock = 0
  /\ transactionLog = <<>>
  /\ processedPortfolio = "null"
  /\ pendingEffect = FALSE
  /\ replayedLog = <<>>
  /\ LedgerIdle
  /\ CallIdle

updateTrade ==
  \E id \in TradeIds, changes \in TradeChanges, written \in BOOLEAN :
    /\ provider = "trades"
    /\ clock < MaxCalls
    /\ LET next == MapChanges(trades, id, changes)
           saved == saveToStorage(next, written)
       IN  /\ trades' = next
           /\ storage' = saved.storage
           /\ diag' = saved.diag
    /\ args' = [fn |-> "updateTrade", id |-> id, changes |-> changes]
    /\ result' = <<undefined>>
    /\ clock' = clock + 1
    /\ UNCHANGED <<provider, transactionLog, processedPortfolio, pendingEffect,
                   replayedLog>>
    /\ UNCHANGED <<shareQuantities, shareTotalCosts, openOptionStates,
                   cumulativeRealizedPL, index, tx, txAfter, prev, rerun>>

deleteTrade ==
  \E id \in TradeIds, written \in BOOLEAN :
    /\ provider = "trades"
    /\ clock < MaxCalls
    /\ LET next == FilterOut(trades, id)
           saved == saveToStorage(next, written)
       IN  /\ trades' = next
           /\ storage' = saved.storage
           /\ diag' = saved.diag
    /\ args' = [fn |-> "deleteTrade", id |-> id]
    /\ result' = <<undefined>>
    /\ clock' = clock + 1
    /\ UNCHANGED <<provider, transactionLog, processedPortfolio, pendingEffect,
                   replayedLog>>
    /\ UNCHANGED <<shareQuantities, shareTotalCosts, openOptionStates,
                   cumulativeRealizedPL, index, tx, txAfter, prev, rerun>>

\* (the stored text is one the hook wrote, so JSON.parse does not throw)
loadFromStorage ==
  /\ provider = "trades"
  /\ clock < MaxCalls
  /\ LET saved == storage
         parsed == IF saved # <<>> THEN JSONParse(saved[1]) ELSE <<>>
     IN  /\ trades' = parsed
         /\ result' = <<parsed>>
  /\ args' = [fn |-> "loadFromStorage"]
  /\ diag' = {}
  /\ clock' = clock + 1
  /\ UNCHANGED <<provider, transactionLog, processedPortfolio, pendingEffect,
                 replayedLog, storage>>
  /\ UNCHANGED <<shareQuantities, shareTotalCosts, openOptionStates,
                 cumulativeRealizedPL, index, tx, txAfter, prev, rerun>>

TradesNext ==
  \/ addTrade
  \/ updateTrade
  \/ deleteTrade
  \/ loadFromStorage

TradesSpec == TradesInit /\ [][TradesNext]_vars

\* C25: after any sequence of addTrade, updateTrade and deleteTrade calls from
\* an empty list the trades list is in non-decreasing date order.
C25_TradesInDateOrder ==
  provider = "trades" =>
    \A i, j \in DOMAIN trades : i < j => trades[i].date <= trades[j].date

\* the step is a call of addTrade, updateTrade or deleteTrade
ChangeStep == args'.fn \in {"addTrade", "updateTrade", "deleteTrade"}

\* the change of the call has been applied to the list in memory (addTrade
\* sorts the whole list, so the trades it held may come out in another order;
\* their ids differ, so the set and the length fix them)
ChangeApplied ==
  /\ args'.fn = "addTrade" =>
       /\ Len(trades') = Len(trades) + 1
       /\ \E i \in DOMAIN trades' :
            /\ trades'[i] = args'.trade
            /\ {trades'[j] : j \in DOMAIN trades' \ {i}}
                 = {trades[j] : j \in DOMAIN trades}
  /\ args'.fn = "updateTrade" =>
       /\ Len(trades') = Len(trades)
       /\ \A i \in DOMAIN trades :
            IF trades[i].id = args'.id
            THEN /\ \A f \in DOMAIN args'.changes : trades'[i][f] = args'.changes[f]
                 /\ \A f \in DOMAIN trades[i] \ DOMAIN args'.changes :
                      trades'[i][f] = trades[i][f]
            ELSE trades'[i] = trades[i]
  /\ args'.fn = "deleteTrade" =>
       trades' = SelectSeq(trades, LAMBDA t : t.id # args'.id)

\* C30: after an addTrade, updateTrade or deleteTrade whose storage write
\* succeeds the stored list is the list in memory, so that a loadFromStorage
\* that follows (with no failed write since) returns and installs exactly the
\* current list; a failed write raises nothing, leaves the stored text as it
\* was and the change is still applied to the list in memory.
C30_StorageFollowsTrades ==
  [][ /\ ( ChangeStep /\ diag' = {} ) =>
           /\ storage' # <<>>
           /\ JSONParse(storage'[1]) = trades'
           /\ ChangeApplied
      /\ ( ChangeStep /\ diag' # {} ) =>
           /\ result' = <<undefined>>
           /\ storage' = storage
           /\ ChangeApplied
      /\ ( args'.fn = "loadFromStorage" /\ diag = {} ) =>
           /\ result' = <<trades>>
           /\ trades' = trades
    ]_vars

\* a trade was deleted from the list in memory while the write failed, so the
\* stored list still holds it
C30_Witness ==
  /\ clock > 1
  /\ args.fn = "deleteTrade"
  /\ diag = {"save_failed"}
  /\ storage # <<>>
  /\ Len(JSONParse(storage[1])) > Len(trades)

(***************************************************************************)
(* Share accounting and cash                                               *)
(***************************************************************************)
\* the cash a share transaction brings in (a sale) or takes out (a purchase)
ShareCashFlow(t) ==
  IF t.transactionType = "SELL_SHARE"
  THEN t.quantity * t.pricePerShare - t.commission
  ELSE 0 - (t.quantity * t.pricePerShare + t.commission)

\* the total cost basis of the open share positions of a portfolio
RECURSIVE OpenCostBasis(_)
OpenCostBasis(openShares) ==
  IF openShares = {} THEN RZero
  ELSE LET share == CHOOSE x \in openShares : TRUE
       IN  RAdd(RMul(RInt(share.quantity), share.costBasisPerShare),
                OpenCostBasis(openShares \ {share}))

\* realized P/L less the cost basis of what is still open
NetOfOpenCost(st) ==
  RSub(ProcessedPortfolio(st).realizedPL,
       OpenCostBasis(ProcessedPortfolio(st).openShares))

RECURSIVE TotalCashFlow(_)
TotalCashFlow(log) ==
  IF log = <<>> THEN 0 ELSE ShareCashFlow(Head(log)) + TotalCashFlow(Tail(log))

\* the shares held after a log of share transactions none of which oversells
RECURSIVE SharesHeld(_)
SharesHeld(log) ==
  IF log = <<>> THEN 0
  ELSE LET t == log[Len(log)]
           before == SharesHeld(SubSeq(log, 1, Len(log) - 1))
       IN  IF t.transactionType = "SELL_SHARE" THEN before - t.quantity
           ELSE before + t.quantity

NoSaleExceedsHolding(log) ==
  \A n \in 1 .. Len(log) : SharesHeld(SubSeq(log, 1, n)) >= 0

\* every log of up to MaxLog share transactions
ShareLogs ==
  SeqsUpTo({ShareTx(ty, "xyz", q, p, c) :
              ty \in {"BUY_SHARE", "SELL_SHARE"}, q \in ShareQtys,
              p \in Prices, c \in Commissions},
           MaxLog)

\* C26: over BUY_SHARE and SELL_SHARE transactions none of which sells more
\* than is held, realized P/L minus the total cost basis of the shares still
\* open equals the sum over the sales of (quantity x price - commission) minus
\* the sum over the purchases of (quantity x price + commission); once every
\* share is sold the realized P/L is the net cash flow of all the trades.
C26_ShareCashConserved ==
  /\ ( /\ tx.transactionType \in {"BUY_SHARE", "SELL_SHARE"}
       /\ tx.transactionType = "SELL_SHARE" =>
            tx.quantity <= GetQty(prev.shareQuantities, "XYZ") ) =>
       RSub(NetOfOpenCost(Ledger), NetOfOpenCost(prev)) = RInt(ShareCashFlow(tx))
  /\ index = 0 =>
       \A log \in ShareLogs :
         NoSaleExceedsHolding(log) =>
           LET portfolio == calculateProcessedPortfolio(log)
           IN  /\ RSub(portfolio.realizedPL, OpenCostBasis(portfolio.openShares))
                    = RInt(TotalCashFlow(log))
               /\ portfolio.openShares = {} =>
                    portfolio.realizedPL = RInt(TotalCashFlow(log))

\* the last shares of a holding bought with a commission were sold with one
C26_Witness ==
  /\ tx.transactionType = "SELL_SHARE"
  /\ tx.commission > 0
  /\ tx.quantity = GetQty(prev.shareQuantities, "XYZ")
  /\ GetAmt(prev.shareTotalCosts, "XYZ") # RInt(tx.quantity * tx.pricePerShare)
  /\ shareQuantities = EmptyMap
  /\ RSub(cumulativeRealizedPL, prev.cumulativeRealizedPL)
       # RInt(ShareCashFlow(tx))

(***************************************************************************)
(* A series that has been used up                                          *)
(***************************************************************************)
\* the series an open transaction starts when its optionId is not tracked
FreshSeries(t) ==
  [id |-> t.optionId,
   ticker |-> "XYZ",
   optionType |-> t.optionType,
   strikePrice |-> t.strikePrice,
   positionType |->
     IF t.transactionType = "SELL_TO_OPEN_OPTION" THEN "short" ELSE "long",
   quantity |-> t.quantity,
   netPremiumValue |->
     IF t.transactionType = "SELL_TO_OPEN_OPTION"
     THEN RInt(t.premiumPerContract * t.quantity)
     ELSE RInt(0 - t.premiumPerContract * t.quantity),
   commissionPaid |-> RInt(t.commission)]

\* the transactions that take all n contracts of a series of the given
\* direction out
UsingUp(id, direction, n) ==
  {CloseTx(IF direction = "short" THEN "BUY_TO_CLOSE_OPTION"
           ELSE "SELL_TO_CLOSE_OPTION", id, q, p, c) :
     q \in n .. MaxContracts, p \in Prices, c \in Commissions}
  \cup {ExpireTx(id, q) : q \in n .. MaxContracts}
  \cup {AssignTx(ty, "xyz", id, q, k) :
          ty \in AssignTypes, q \in n .. MaxContracts, k \in Strikes}

\* every close, expiration and assignment of a series
EndingTxs(id) ==
  {CloseTx(ty, id, q, p, c) :
     ty \in CloseTypes, q \in Contracts, p \in Prices, c \in Commissions}
  \cup {ExpireTx(id, q) : q \in Contracts}
  \cup {AssignTx(ty, "xyz", id, q, k) :
          ty \in AssignTypes, q \in Contracts, k \in Strikes}

OpeningTxs(id) ==
  {OpenTx(ty, id, q, p, c) :
     ty \in OpenTypes, q \in Contracts, p \in Prices, c \in Commissions}

\* C27: once closes, expirations and assignments have consumed the whole open
\* quantity of a series it is no longer tracked: a later close, expiration or
\* assignment/exercise for that optionId is skipped as an unknown position,
\* and a later open with that optionId starts a fresh series with only the new
\* quantity, premium and commission, also when its direction is the opposite.
C27_UsedUpSeriesForgotten ==
  /\ ( LastAppliedToSeries /\ txAfter.quantity = PrevSeries.quantity ) =>
       tx.optionId \notin DOMAIN openOptionStates
  /\ ( /\ tx.transactionType \in EndTypes
       /\ tx.optionId \notin DOMAIN prev.openOptionStates ) =>
       /\ Ledger = prev
       /\ diag = {"not_tracked"}
  /\ ( /\ tx.transactionType \in OpenTypes
       /\ tx.optionId \notin DOMAIN prev.openOptionStates ) =>
       /\ tx.optionId \in DOMAIN openOptionStates
       /\ openOptionStates[tx.optionId] = FreshSeries(tx)
       /\ \A id \in DOMAIN prev.openOptionStates :
            /\ id \in DOMAIN openOptionStates
            /\ openOptionStates[id] = prev.openOptionStates[id]
       /\ shareQuantities = prev.shareQuantities
       /\ shareTotalCosts = prev.shareTotalCosts
       /\ cumulativeRealizedPL = prev.cumulativeRealizedPL
  /\ index = 0 =>
       \A id \in OptionIds : \A first \in OpeningTxs(id) :
         \A last \in UsingUp(id, OpenPositionType(first), first.quantity) :
           LET used == ReplayLedger(EmptyLedger, <<first, last>>)
           IN  /\ id \notin DOMAIN used.openOptionStates
               /\ \A later \in EndingTxs(id) :
                    ProcessTx(used, later).st = used
               /\ \A later \in OpeningTxs(id) :
                    ProcessTx(used, later).st =
                      [used EXCEPT !.openOptionStates =
                         (id :> FreshSeries(later))]

\* the third transaction opens a long series with a commission when nothing
\* is open and the realized P/L is one that only a series of MaxContracts
\* contracts at 2 each, opened and used up whole, leaves
C27_Witness ==
  /\ index = 3
  /\ tx.transactionType = "BUY_TO_OPEN_OPTION"
  /\ prev.openOptionStates = EmptyMap
  /\ prev.shareQuantities = EmptyMap
  /\ prev.cumulativeRealizedPL = RInt(2 * MaxContracts)
  /\ openOptionStates = (tx.optionId :> FreshSeries(tx))
  /\ tx.commission > 0

\* the last transaction was a close of the kind that does not fit the
\* direction of the tracked series it names
LastCloseOfWrongKind ==
  /\ tx.transactionType \in CloseTypes
  /\ tx.optionId \in DOMAIN prev.openOptionStates
  /\ \/ tx.transactionType = "BUY_TO_CLOSE_OPTION" /\ PrevSeries.positionType = "long"
     \/ tx.transactionType = "SELL_TO_CLOSE_OPTION" /\ PrevSeries.positionType = "short"

\* C28: a buy-to-close applied to a long series, or a sell-to-close applied to
\* a short series, is skipped: the quantity, net premium value and commission
\* of the series, every other position and the cumulative realized P/L are
\* as they were (and the transaction record is left alone).
C28_WrongKindOfCloseSkipped ==
  LastCloseOfWrongKind =>
    /\ tx.optionId \in DOMAIN openOptionStates
    /\ openOptionStates[tx.optionId].quantity = PrevSeries.quantity
    /\ openOptionStates[tx.optionId].netPremiumValue = PrevSeries.netPremiumValue
    /\ openOptionStates[tx.optionId].commissionPaid = PrevSeries.commissionPaid
    /\ openOptionStates = prev.openOptionStates
    /\ shareQuantities = prev.shareQuantities
    /\ shareTotalCosts = prev.shareTotalCosts
    /\ cumulativeRealizedPL = prev.cumulativeRealizedPL
    /\ txAfter = tx

\* a sell-to-close that asks for more contracts than are open, with a
\* commission, arrives for a short series while shares are held
C28_Witness ==
  /\ LastCloseOfWrongKind
  /\ tx.transactionType = "SELL_TO_CLOSE_OPTION"
  /\ tx.quantity > PrevSeries.quantity
  /\ tx.commission > 0
  /\ prev.shareQuantities # EmptyMap

(***************************************************************************)
(* The theoretical curve of a portfolio whose options have all expired     *)
(***************************************************************************)
\* the expiration date of the option is on or before the as-of date
ExpiredBy(option, currentDate) ==
  /\ IsDateText(option.expirationDate)
  /\ ParseUTCDate(option.expirationDate) <= UTCMidnight(currentDate)

\* generatePLData has returned for an as-of date on or after the expiration
\* date of every open option, and a positive implied volatility
TheoreticalOfExpired ==
  /\ result # <<>>
  /\ args.fn = "generatePLData"
  /\ \A i \in DOMAIN args.portfolio.options :
        ExpiredBy(args.portfolio.options[i], args.currentDate)
  /\ RLt(RZero, args.iv)

\* C29: when the expiration date of every open option is on or before the
\* as-of date and the implied volatility is positive, the theoretical curve
\* equals, point for point, the expiration curve of the same portfolio,
\* price range and steps.
C29_ExpiredTheoreticalIsExpirationCurve ==
  TheoreticalOfExpired =>
    result[1] = generateExpirationPLData(args.portfolio, args.rangeStart,
                                         args.rangeEnd, args.steps)

\* the curve of shares, the short call and the long put, taken on the day
\* the put expires, over a range where its P/L is not constant
C29_Witness ==
  /\ TheoreticalOfExpired
  /\ args.portfolio.options = <<ShortCall, LongPut>>
  /\ args.portfolio.shares # <<>>
  /\ args.currentDate = GetTime(MaxDate)
  /\ Len(result[1]) >= 3
  /\ \E i, j \in DOMAIN result[1] : result[1][i].pl # result[1][j].pl

====
